---- MODULE Spec2Model ----
(***************************************************************************)
(* A model of allxfr's zone-transfer pipeline: the worker loop of main.go, *)
(* the transfer engine of axfr.go (axfrWorker, axfrRetry, axfr,            *)
(* axfrToFile), the zone-file writer of save/savezone.go, the zone-name    *)
(* producer of zone/zone.go and the status aggregator of status/status.go. *)
(*                                                                         *)
(* Names are sequences of tokens ending (or not) in the token ".", IP      *)
(* addresses are records that keep the 4-byte / 16-byte distinction of     *)
(* net.IP, errors are chains (sequences) of error texts, nil is << >>.     *)
(* uint32 counters are kept as residues mod 2^32, written with the         *)
(* representative in -2^31 .. 2^31-1 (so -1 stands for 4294967295).        *)
(***************************************************************************)
EXTENDS Integers, Sequences, FiniteSets, TLC

\* ------------------------------------------------------------------ bounds
MaxParallel == 2   \* goroutines that may run (workers, or callers of the status API)
MaxRetry    == 2   \* largest value of the -retry flag that is explored
MaxEnv      == 1   \* envelopes without error a server sends in one transfer
MaxRR       == 1   \* resource records in one envelope
MaxCalls    == 3   \* calls made by the callers of the status API
MaxNow      == 3   \* the clock, in ticks of the cleanup ticker (5 minutes)
MaxOps      == 6   \* calls made on a save.File driven on its own
MaxCacheOps == 5   \* calls and clock ticks on a dnsCache driven on its own
MaxClock    == 2   \* the clock of the cache, in units of the short TTL
MaxCapacity == 2   \* largest capacity a cache is made with
MaxAnswer   == 1   \* records in the Answer section of a result
MaxAuthority == 2  \* records in the Authority section of a result
MaxPieces   == 2   \* pieces a domain string passed to the resolver is made of
MaxResolverCalls == 2  \* public calls made on a Resolver driven on its own
MaxResults  == 2   \* results handed to mergeResults on its own
MaxSection  == 1   \* records in a section of such a result
MaxRankOps  == 1   \* queries recorded by updateRTT in the ranking unit
MaxRankClock == 60 \* seconds of the ranking unit's clock
TickSeconds == 30  \* seconds that pass in one step of that clock
MaxRanked   == 3   \* servers handed to sortNameserversByRTT
MaxRootEnv  == 2   \* envelopes with a record in a transfer of the root zone

Workers == 1 .. MaxParallel

\* ----------------------------------------------------------- the zone model
Dot == "."

\* The NS map of the zone model: its keys are what GetNameChan ranges over.
\* "a." comes from the root zone with glue; "b" is a positional argument or a
\* PSL name (AddNS(domain, "")), which is lower-cased but not made a FQDN.
NSMap ==
    ( <<"a", Dot>> :> <<"ns1", "ns2">> ) @@
    ( <<"b">>      :> << >> ) @@
    ( <<Dot>>      :> <<"ns1">> )

IP4(n)       == [bytes |-> 4,  hi |-> "",     lo |-> n]
IP4in6(n)    == [bytes |-> 16, hi |-> "ffff", lo |-> n]
IP6(n)       == [bytes |-> 16, hi |-> "2001", lo |-> n]

\* The IP map of the zone model (glue).  ns2 repeats the address of ns1 in its
\* IPv4-mapped 16-byte form.
IPMap ==
    ( "ns1" :> << IP4(1), IP6(2) >> ) @@
    ( "ns2" :> << IP4in6(1) >> )

\* What the resolver may answer for an NS query, and for LookupIPAll.
ResolveAnswers == { <<"ns3">> }
LookupAnswers  == { << IP6(2), IP4(4) >> }

\* dns.Fqdn
Fqdn(d) == IF Len(d) > 0 /\ d[Len(d)] = Dot THEN d ELSE Append(d, Dot)

\* z.NS[domain] and z.IP[nameserver]: a missing key reads as the nil slice
ZoneNSOf(d) == IF d \in DOMAIN NSMap THEN NSMap[d] ELSE << >>
ZoneIPOf(n) == IF n \in DOMAIN IPMap THEN IPMap[n] ELSE << >>

\* net.IP.To4, To16 and String
To4(ip)  == IF ip.bytes = 4 THEN ip
            ELSE IF ip.hi = "ffff" THEN IP4(ip.lo) ELSE [bytes |-> 0, hi |-> "", lo |-> 0]
To16(ip) == IF ip.bytes = 4 THEN IP4in6(ip.lo) ELSE ip
IPString(ip) == IF To4(ip).bytes = 4 THEN <<"v4", ip.lo>> ELSE <<ip.hi, ip.lo>>

\* GetNameChan skips the root and arpa
HasArpaSuffix(d) ==
    Len(d) >= 3 /\ SubSeq(d, Len(d) - 2, Len(d)) = <<Dot, "arpa", Dot>>
\* a filter that forgets the names under arpa
SkippedName_NoSuffix(d) == d = <<Dot>> \/ d = <<"arpa", Dot>>

SkippedName(d) == d = <<Dot>> \/ d = <<"arpa", Dot>> \/ HasArpaSuffix(d)

\* strings.ToLower, on the labels the model uses
ToLower(d) ==
    [k \in 1 .. Len(d) |-> CASE d[k] = "ARPA" -> "arpa" [] d[k] = "A" -> "a" [] OTHER -> d[k]]

\* Zone.AddNS(domain, ""), on the keys of the NS map
AddNS(keys, domain) == keys \cup { ToLower(domain) }

\* ------------------------------------------------------------------ errors
NoErr == << >>
ErrAxfrUnsupported == "AXFR Unsupported"
CtxErr == <<"context canceled">>
Rcode5Text == "dns: bad xfr rcode: 5"
Rcode9Text == "dns: bad xfr rcode: 9"
OtherErrText == "dns: bad xfr rcode: 2"
EnvelopeErrors == { Rcode5Text, Rcode9Text, OtherErrText }

\* err.Error(): the text of a leaf error is itself, a wrapped error prints
\* the texts of its chain joined
ErrorString(err) == IF Len(err) = 1 THEN err[1] ELSE "wrapped error"
\* errors.Is
ErrorsIs(err, target) == \E k \in 1 .. Len(err) : err[k] = target

\* a wrap that knows rcode 5 only
ErrorAxfrUnsupportedWrap_Rcode5Only(err) ==
    IF err = NoErr THEN NoErr
    ELSE IF ErrorString(err) = Rcode5Text THEN <<ErrAxfrUnsupported, "Refused">> \o err
    ELSE err

\* ErrorAxfrUnsupportedWrap: lines 27-41
ErrorAxfrUnsupportedWrap(err) ==
    IF err = NoErr THEN NoErr
    ELSE IF ErrorString(err) = Rcode5Text THEN <<ErrAxfrUnsupported, "Refused">> \o err
    ELSE IF ErrorString(err) = Rcode9Text THEN <<ErrAxfrUnsupported, "Not Authorized">> \o err
    ELSE err


\* --------------------------------------------------------------- variables
VARIABLES
    flag,       \* the command line: saveAll, dryRun, overwrite, retry, status, parallel
    cancelled,  \* ctx.Done() is closed
    todo,       \* keys of the NS map the producer of GetNameChan has not ranged over yet
    closed,     \* the zone-name channel is closed
    wk,         \* per goroutine: position and locals of worker/axfrWorker/axfrRetry/axfr/axfrToFile
    disk,       \* the output directory: file name -> lines
    totalXFR,   \* the global transfer counter
    ss,         \* the StatusServer: active, activeCount, completed, failed, recentFailed
    cl,         \* the cleanupStaleEntries goroutine
    now,        \* the clock, in ticks of 5 minutes
    hist,       \* calls of the status API and names handed to the workers so far
                \* (for stating the properties)
    zn,         \* the zone under GetNameChan alone: the keys of its NS map, the names sent
    fw,         \* a save.File driven call by call: the writer, the calls made, the last error
    cache,      \* a dnsCache driven call by call, with its clock
    msg,        \* a DNS response handed to calculateTTL, and the TTL returned
    rs          \* a Resolver driven call by call: its cache, the servers' answers, the call in progress

\* the state of the components that are also exercised on their own
unitVars == <<zn, fw, cache, msg, rs>>

vars == <<flag, cancelled, todo, closed, wk, disk, totalXFR, ss, cl, now, hist, unitVars>>

saveAll   == flag.saveAll
dryRun    == flag.dryRun
overwrite == flag.overwrite
retry     == flag.retry
statusOn  == flag.status

ZoneNames == DOMAIN NSMap \cup { Fqdn(d) : d \in DOMAIN NSMap }

\* ------------------------------------------------- files and the zone writer
\* The file name axfrToFile chooses (zone is a FQDN)
Filename(zone, nameserver, ip) ==
    IF saveAll
    THEN [kind |-> "all", zone |-> zone, ns |-> nameserver, ip |-> IPString(ip), tmp |-> FALSE]
    ELSE [kind |-> "std", zone |-> SubSeq(zone, 1, Len(zone) - 1), ns |-> "", ip |-> <<"", 0>>,
          tmp |-> FALSE]

TmpName(filename) == [filename EXCEPT !.tmp = TRUE]

DiskPut(d, name, lines) == (name :> lines) @@ d
DiskRemove(d, name)     == [n \in DOMAIN d \ {name} |-> d[n]]
DiskRename(d, from, to) == (to :> d[from]) @@ DiskRemove(d, from)

Line(key, value) == [k |-> key, v |-> value]

ErrFileClosed == <<"file is already closed">>

\* save.New
New(zone, filename) ==
    [filename |-> filename, filenameTmp |-> TmpName(filename), zone |-> zone,
     opened |-> FALSE, records |-> 0, closed |-> FALSE, pendingWrites |-> << >>]

NoFile == New(<< >>, [kind |-> "", zone |-> << >>, ns |-> "", ip |-> <<"", 0>>, tmp |-> FALSE])

\* a WriteComment without the test of f.closed
WriteComment_NoClosedCheck(f, d, line) ==
    IF ~f.opened /\ ~f.closed
    THEN [f |-> [f EXCEPT !.pendingWrites = Append(@, line)], d |-> d, err |-> NoErr]
    ELSE [f |-> f,
          d |-> DiskPut(d, f.filenameTmp,
                        Append(IF f.filenameTmp \in DOMAIN d THEN d[f.filenameTmp] ELSE << >>,
                               line)),
          err |-> NoErr]

\* File.WriteComment / WriteCommentKey: the result is the writer, the disk and the error
WriteComment(f, d, line) ==
    IF f.closed THEN [f |-> f, d |-> d, err |-> ErrFileClosed]
    ELSE IF ~f.opened
         THEN [f |-> [f EXCEPT !.pendingWrites = Append(@, line)], d |-> d, err |-> NoErr]
         ELSE [f |-> f, d |-> DiskPut(d, f.filenameTmp, Append(d[f.filenameTmp], line)),
               err |-> NoErr]

\* a fileReady that forgets the buffered comments
fileReady_DropsPending(f, d) ==
    IF f.closed THEN [f |-> f, d |-> d, err |-> ErrFileClosed]
    ELSE IF ~f.opened
         THEN [f |-> [f EXCEPT !.opened = TRUE, !.pendingWrites = << >>],
               d |-> DiskPut(d, f.filenameTmp,
                             << Line("timestamp", <<"now">>), Line("zone", f.zone) >>),
               err |-> NoErr]
         ELSE [f |-> f, d |-> d, err |-> NoErr]

\* File.fileReady: creates the temp file and writes the metadata and the buffered comments
fileReady(f, d) ==
    IF f.closed THEN [f |-> f, d |-> d, err |-> ErrFileClosed]
    ELSE IF ~f.opened
         THEN [f |-> [f EXCEPT !.opened = TRUE, !.pendingWrites = << >>],
               d |-> DiskPut(d, f.filenameTmp,
                             << Line("timestamp", <<"now">>), Line("zone", f.zone) >>
                                \o f.pendingWrites),
               err |-> NoErr]
         ELSE [f |-> f, d |-> d, err |-> NoErr]

\* File.AddRR
AddRR(f, d, rr) ==
    LET r == fileReady(f, d) IN
    IF r.err # NoErr THEN r
    ELSE [f |-> [r.f EXCEPT !.records = @ + 1],
          d |-> DiskPut(r.d, f.filenameTmp, Append(r.d[f.filenameTmp], Line("rr", rr))),
          err |-> NoErr]

\* a Finish that uses the test of the "records" comment for the rename as well
FinishKeeps_MoreThanOne(records) == records > 1

\* File.Finish keeps the temp file under the final name iff this holds
FinishKeeps(records) == records > 0

\* File.Finish
Finish(f, d) ==
    IF f.closed THEN [f |-> f, d |-> d, err |-> NoErr]
    ELSE IF ~f.opened THEN [f |-> [f EXCEPT !.closed = TRUE], d |-> d, err |-> NoErr]
    ELSE LET w == IF f.records > 1
                  THEN WriteComment(f, d, Line("records", <<"n", f.records>>))
                  ELSE [f |-> f, d |-> d, err |-> NoErr]
         IN  [f |-> [w.f EXCEPT !.closed = TRUE],
              d |-> IF FinishKeeps(f.records)
                    THEN DiskRename(w.d, f.filenameTmp, f.filename)
                    ELSE DiskRemove(w.d, f.filenameTmp),
              err |-> NoErr]

\* File.Abort
Abort(f, d) == Finish([f EXCEPT !.records = 0], d)

\* AddRR for every RR of an envelope, in order; rrs is the number of RRs of
\* envelope number e
RECURSIVE AddEnvelope(_, _, _, _, _)
AddEnvelope(f, d, e, rrs, j) ==
    IF j > rrs THEN [f |-> f, d |-> d, err |-> NoErr]
    ELSE LET r == AddRR(f, d, <<e, j>>) IN AddEnvelope(r.f, r.d, e, rrs, j + 1)

\* ------------------------------------------------------ the status aggregator
StaleTicks == 2    \* staleThreshold (10 minutes) in ticks of the cleanup ticker (5 minutes)

EmptyMap == [n \in {} |-> 0]

\* atomic.AddUint32(&x, 1) and atomic.AddUint32(&x, ^uint32(0)) on residues mod 2^32
Inc32(x) == IF x = 2147483647 THEN -2147483647 - 1 ELSE x + 1
Dec32(x) == IF x = -2147483647 - 1 THEN 2147483647 ELSE x - 1

\* a plain Load in place of LoadAndDelete
LoadWithoutDelete(m, key) == [exists |-> key \in DOMAIN m, m |-> m]

\* sync.Map.LoadAndDelete: the map without the key, and whether the key was there
LoadAndDelete(m, key) ==
    [exists |-> key \in DOMAIN m, m |-> [n \in DOMAIN m \ {key} |-> m[n]]]

\* the ring of recent failures keeps the last 10
RingAppend(ring, entry) ==
    LET r == Append(ring, entry) IN IF Len(r) > 10 THEN SubSeq(r, 2, Len(r)) ELSE r

Goto(i, pc) == wk' = [wk EXCEPT ![i].pc = pc]

\* the status call returns to its caller
StatusReturn(i) ==
    wk' = [wk EXCEPT ![i].pc = wk[i].sret, ![i].sarg = << >>, ![i].sreason = "",
                     ![i].sret = ""]

NotStatus == UNCHANGED <<unitVars, flag, cancelled, todo, closed, disk, totalXFR, cl, now>>

\* StartTransfer, line 66: s.active.Store(zone, time.Now())
St_Store(i) ==
    /\ wk[i].pc = "st_store"
    /\ ss' = [ss EXCEPT !.active = (wk[i].sarg :> now) @@ @]
    /\ hist' = [hist EXCEPT !.started[wk[i].sarg] = @ + 1]
    /\ Goto(i, "st_add")
    /\ NotStatus

\* StartTransfer, line 67: atomic.AddUint32(&s.activeCount, 1)
St_Add(i) ==
    /\ wk[i].pc = "st_add"
    /\ ss' = [ss EXCEPT !.activeCount = Inc32(@)]
    /\ StatusReturn(i)
    /\ UNCHANGED hist
    /\ NotStatus

\* CompleteTransfer, line 73: the load-and-delete that decides whether this call counts
Ct_LoadAndDelete(i) ==
    /\ wk[i].pc = "ct_lad"
    /\ LET r == LoadAndDelete(ss.active, wk[i].sarg) IN
         /\ ss' = [ss EXCEPT !.active = r.m]
         /\ IF r.exists
            THEN /\ Goto(i, "ct_dec")
                 /\ hist' = [hist EXCEPT !.won[wk[i].sarg] = @ + 1]
            ELSE /\ StatusReturn(i)
                 /\ UNCHANGED hist
    /\ NotStatus

Ct_Dec(i) ==
    /\ wk[i].pc = "ct_dec"
    /\ ss' = [ss EXCEPT !.activeCount = Dec32(@)]
    /\ Goto(i, "ct_inc")
    /\ UNCHANGED hist
    /\ NotStatus

Ct_Inc(i) ==
    /\ wk[i].pc = "ct_inc"
    /\ ss' = [ss EXCEPT !.completed = Inc32(@)]
    /\ StatusReturn(i)
    /\ UNCHANGED hist
    /\ NotStatus

\* FailTransfer, line 82
Ft_LoadAndDelete(i) ==
    /\ wk[i].pc = "ft_lad"
    /\ LET r == LoadAndDelete(ss.active, wk[i].sarg) IN
         /\ ss' = [ss EXCEPT !.active = r.m]
         /\ IF r.exists
            THEN /\ Goto(i, "ft_dec")
                 /\ hist' = [hist EXCEPT !.won[wk[i].sarg] = @ + 1]
            ELSE /\ StatusReturn(i)
                 /\ UNCHANGED hist
    /\ NotStatus

Ft_Dec(i) ==
    /\ wk[i].pc = "ft_dec"
    /\ ss' = [ss EXCEPT !.activeCount = Dec32(@)]
    /\ Goto(i, "ft_inc")
    /\ UNCHANGED hist
    /\ NotStatus

Ft_Inc(i) ==
    /\ wk[i].pc = "ft_inc"
    /\ ss' = [ss EXCEPT !.failed = Inc32(@)]
    /\ Goto(i, "ft_ring")
    /\ UNCHANGED hist
    /\ NotStatus

\* FailTransfer, lines 87-96, under s.mu
Ft_Ring(i) ==
    /\ wk[i].pc = "ft_ring"
    /\ ss' = [ss EXCEPT !.recentFailed = RingAppend(@, <<wk[i].sarg, wk[i].sreason>>)]
    /\ StatusReturn(i)
    /\ UNCHANGED hist
    /\ NotStatus

StatusStep(i) ==
    \/ St_Store(i) \/ St_Add(i)
    \/ Ct_LoadAndDelete(i) \/ Ct_Dec(i) \/ Ct_Inc(i)
    \/ Ft_LoadAndDelete(i) \/ Ft_Dec(i) \/ Ft_Inc(i) \/ Ft_Ring(i)

\* ---- cleanupStaleEntries
NotCleanup == UNCHANGED <<unitVars, flag, cancelled, todo, closed, wk, disk, totalXFR>>

\* time passes; the ticker delivers a tick every 5 minutes
Tick ==
    /\ now < MaxNow
    /\ now' = now + 1
    /\ cl' = [cl EXCEPT !.fired = TRUE]
    /\ UNCHANGED <<ss, hist>>
    /\ NotCleanup

\* for range ticker.C: a pass begins; Range visits the keys the map holds now
Cl_Begin ==
    /\ cl.pc = "wait" /\ cl.fired
    /\ cl' = [cl EXCEPT !.pc = "range", !.fired = FALSE, !.now = now,
                        !.keys = DOMAIN ss.active]
    /\ UNCHANGED <<ss, hist, now>>
    /\ NotCleanup

\* a threshold that is reached at exactly 10 minutes
IsStale_Inclusive(t, startTime) == t - startTime >= StaleTicks

\* line 154: now.Sub(startTime) > staleThreshold
IsStale(t, startTime) == t - startTime > StaleTicks

\* the callback of Range for one key: lines 153-154
Cl_Visit ==
    /\ cl.pc = "range"
    /\ \E key \in cl.keys :
         cl' = [cl EXCEPT !.keys = @ \ {key},
                          !.key = key,
                          !.pc = IF key \in DOMAIN ss.active
                                    /\ IsStale(cl.now, ss.active[key])
                                 THEN "lad" ELSE "range"]
    /\ UNCHANGED <<ss, hist, now>>
    /\ NotCleanup

\* line 156
Cl_LoadAndDelete ==
    /\ cl.pc = "lad"
    /\ LET r == LoadAndDelete(ss.active, cl.key) IN
         /\ ss' = [ss EXCEPT !.active = r.m]
         /\ IF r.exists
            THEN /\ cl' = [cl EXCEPT !.pc = "dec"]
                 /\ hist' = [hist EXCEPT !.won[cl.key] = @ + 1]
            ELSE /\ cl' = [cl EXCEPT !.pc = "range"]
                 /\ UNCHANGED hist
    /\ UNCHANGED now
    /\ NotCleanup

Cl_Dec ==
    /\ cl.pc = "dec"
    /\ ss' = [ss EXCEPT !.activeCount = Dec32(@)]
    /\ cl' = [cl EXCEPT !.pc = "inc"]
    /\ UNCHANGED <<hist, now>>
    /\ NotCleanup

Cl_Inc ==
    /\ cl.pc = "inc"
    /\ ss' = [ss EXCEPT !.failed = Inc32(@)]
    /\ cl' = [cl EXCEPT !.pc = "ring"]
    /\ UNCHANGED <<hist, now>>
    /\ NotCleanup

Cl_Ring ==
    /\ cl.pc = "ring"
    /\ ss' = [ss EXCEPT !.recentFailed =
                  RingAppend(@, <<cl.key, "stale transfer (cleanup)">>)]
    /\ cl' = [cl EXCEPT !.pc = "range"]
    /\ UNCHANGED <<hist, now>>
    /\ NotCleanup

Cl_End ==
    /\ cl.pc = "range" /\ cl.keys = {}
    /\ cl' = [cl EXCEPT !.pc = "wait"]
    /\ UNCHANGED <<ss, hist, now>>
    /\ NotCleanup

Cleanup ==
    \/ Cl_Begin \/ Cl_Visit \/ Cl_LoadAndDelete \/ Cl_Dec \/ Cl_Inc \/ Cl_Ring \/ Cl_End

\* ---- callers of the status API (any goroutine, any zone, any order)
Api_Call(i, op, z) ==
    /\ wk[i].pc = "api"
    /\ hist.calls < MaxCalls
    /\ wk' = [wk EXCEPT ![i].pc = op, ![i].sarg = z, ![i].sret = "api",
                        ![i].sreason = IF op = "ft_lad" THEN "reason" ELSE ""]
    /\ hist' = [hist EXCEPT !.calls = @ + 1]
    /\ UNCHANGED <<unitVars, flag, cancelled, todo, closed, disk, totalXFR, ss, cl, now>>

ApiZones == { d \in DOMAIN NSMap : ~SkippedName(d) }

Api_StartTransfer(i)    == \E z \in ApiZones : Api_Call(i, "st_store", z)
Api_CompleteTransfer(i) == \E z \in ApiZones : Api_Call(i, "ct_lad", z)
Api_FailTransfer(i)     == \E z \in ApiZones : Api_Call(i, "ft_lad", z)

\* ------------------------------------------------------------ the workers
EmptyDisk == [n \in {} |-> << >>]

\* the locals of one goroutine
W0(pc) ==
    [pc |-> pc,
     \* worker
     domain |-> << >>, result |-> NoErr,
     \* axfrWorker
     zone |-> << >>, attempted |-> {}, nsIdx |-> 0, ipIdx |-> 0, phase |-> "",
     qNS |-> << >>, qIPs |-> << >>, ns |-> "", ip |-> IP4(0),
     anySuccess |-> FALSE, err |-> NoErr, ret |-> NoErr,
     \* axfrRetry
     try |-> 0, records |-> 0, rErr |-> NoErr, rAny |-> FALSE,
     \* axfrToFile
     f |-> NoFile, envelope |-> 0,
     \* the status call in progress
     sarg |-> << >>, sreason |-> "", sret |-> "",
     \* what happened (for stating the properties)
     nAxfr |-> 0, nSleep |-> 0, connErr |-> FALSE, cause |-> "", etext |-> "",
     disk0 |-> EmptyDisk, hRecKey |-> << >>, hLateRec |-> FALSE, hCalled |-> << >>]

Set(i, r) == wk' = [wk EXCEPT ![i] = r]

\* a call of StartTransfer / CompleteTransfer / FailTransfer from position pc of r
StatusCall(r, op, zone, reason, back) ==
    [r EXCEPT !.pc = op, !.sarg = zone, !.sreason = reason, !.sret = back]

OnlyWk == UNCHANGED <<unitVars, flag, cancelled, todo, closed, disk, totalXFR, ss, cl, now, hist>>

\* ---- GetNameChan's producer goroutine (the send is the other half of W_Recv)
Prod_Skip ==
    /\ \E d \in todo : SkippedName(d) /\ todo' = todo \ {d}
    /\ UNCHANGED <<unitVars, flag, cancelled, closed, wk, disk, totalXFR, ss, cl, now, hist>>

\* a producer that returns without closing the channel
Prod_Close_Forgotten ==
    /\ todo = {} /\ ~closed
    /\ closed' = FALSE
    /\ UNCHANGED <<unitVars, flag, cancelled, todo, wk, disk, totalXFR, ss, cl, now, hist>>

Prod_Close ==
    /\ todo = {} /\ ~closed
    /\ closed' = TRUE
    /\ UNCHANGED <<unitVars, flag, cancelled, todo, wk, disk, totalXFR, ss, cl, now, hist>>

\* ---- worker (main.go)
W_Recv(i) ==
    /\ wk[i].pc = "recv"
    /\ \E d \in todo :
         /\ ~SkippedName(d)
         /\ todo' = todo \ {d}
         /\ Set(i, IF statusOn
                   THEN StatusCall([wk[i] EXCEPT !.domain = d], "st_store", d, "", "aw_start")
                   ELSE [wk[i] EXCEPT !.domain = d, !.pc = "aw_start"])
         /\ hist' = [hist EXCEPT !.handed[d] = Append(@, i)]
    /\ UNCHANGED <<unitVars, flag, cancelled, closed, disk, totalXFR, ss, cl, now>>

W_Closed(i) ==
    /\ wk[i].pc = "recv"
    /\ closed
    /\ Set(i, [wk[i] EXCEPT !.pc = "returned", !.result = NoErr])
    /\ OnlyWk

\* a worker that hands the error of axfrWorker to the error group
WorkerReturnsError_Propagate == TRUE

\* what the worker does with an error of axfrWorker: TRUE if it returns it
WorkerReturnsError == FALSE

W_After(i) ==
    /\ wk[i].pc = "wk_ret"
    /\ LET w == wk[i] IN
       Set(i, IF w.ret # NoErr
              THEN IF WorkerReturnsError
                   THEN [w EXCEPT !.pc = "returned", !.result = w.ret]
                   ELSE IF statusOn
                        THEN StatusCall(W0("wk_ret"), "ft_lad", w.domain,
                                        ErrorString(w.ret), "recv")
                        ELSE W0("recv")
              ELSE W0("recv"))
    /\ OnlyWk

\* ---- axfrRetry
\* a retry loop that is off by one
RetryLoopCond_Inclusive(try) == try <= retry

\* the condition of the retry loop
RetryLoopCond(try) == try < retry

\* top of "for try := 0; try < *retry; try++" with try already set: either the
\* call of axfr (whose results overwrite records and err) or the loop's end
LoopTop(w, d) ==
    IF RetryLoopCond(w.try)
    THEN [w EXCEPT !.pc = "af_dial", !.nAxfr = @ + 1, !.disk0 = d,
                   !.records = 0, !.rErr = NoErr,
                   !.cause = "", !.etext = "", !.f = NoFile, !.envelope = 0,
                   !.hLateRec = @ \/ (w.hRecKey # << >>
                                      /\ w.hRecKey # IPString(To16(w.ip)))]
    ELSE [w EXCEPT !.pc = "ar_exit"]

\* a key that tells the 4-byte form of an address from its 16-byte form
AttemptKey_Raw(ip) == <<ip.hi, ip.lo, ip.bytes>>

\* the key of attemptedIPs: ip.To16().String()
AttemptKey(ip) == IPString(To16(ip))

\* the call axfrRetry(ctx, ip, domain, nameserver), up to the first call of axfr
CallAxfrRetry(w, ip, d) ==
    LoopTop([w EXCEPT !.attempted = @ \cup {AttemptKey(ip)}, !.ip = ip,
                      !.hCalled = Append(@, [ip |-> To16(ip), phase |-> w.phase]),
                      !.try = 0, !.records = 0, !.rErr = NoErr, !.rAny = FALSE,
                      !.nAxfr = 0, !.nSleep = 0, !.connErr = FALSE], d)

\* what axfrRetry does with the (records, err) of one attempt:
\* lines 160-173
RetryDecision(records, err) ==
    IF err # NoErr
    THEN IF ErrorsIs(err, ErrAxfrUnsupported) THEN "unsupported" ELSE "sleep"
    ELSE IF records # 0 THEN "success" ELSE "sleep"

AR_After(i) ==
    /\ wk[i].pc = "ar_after"
    /\ LET w == wk[i]
           d == RetryDecision(w.records, w.rErr) IN
       Set(i, CASE d = "unsupported" -> [w EXCEPT !.rErr = NoErr, !.pc = "ar_exit"]
                [] d = "success"     -> [w EXCEPT !.rAny = TRUE, !.pc = "ar_exit"]
                [] OTHER             -> [w EXCEPT !.pc = "ar_sleep"])
    /\ OnlyWk

\* the select of lines 174-178, then try++ and the top of the loop
AR_Sleep(i) ==
    /\ wk[i].pc = "ar_sleep"
    /\ LET w == wk[i] IN
       Set(i, IF cancelled
              THEN [w EXCEPT !.anySuccess = w.rAny, !.err = CtxErr, !.pc = "aw_after"]
              ELSE LoopTop([w EXCEPT !.try = @ + 1, !.nSleep = @ + 1], disk))
    /\ OnlyWk

\* lines 180-187
AR_Exit(i) ==
    /\ wk[i].pc = "ar_exit"
    /\ LET w == wk[i] IN
       Set(i, [w EXCEPT !.anySuccess = w.rAny,
                        !.err = IF ~saveAll /\ w.records # 0 THEN NoErr ELSE w.rErr,
                        !.pc = "aw_after"])
    /\ OnlyWk

\* ---- axfrWorker (axfr.go)
AW_Start(i) ==
    /\ wk[i].pc = "aw_start"
    /\ Set(i, [W0("aw_ns") EXCEPT !.domain = wk[i].domain, !.zone = Fqdn(wk[i].domain),
                                  !.nsIdx = 1, !.phase = "glue"])
    /\ OnlyWk

\* axfrWorker returns err
Return(w, err) == [w EXCEPT !.pc = "wk_ret", !.ret = err]

\* top of the loop over z.NS[domain]
AW_GlueNS(i) ==
    /\ wk[i].pc = "aw_ns"
    /\ LET w == wk[i]
           nss == ZoneNSOf(w.zone) IN
       Set(i, IF w.nsIdx > Len(nss) THEN [w EXCEPT !.pc = "aw_resolve", !.try = 0]
              ELSE IF cancelled THEN Return(w, CtxErr)
              ELSE [w EXCEPT !.pc = "aw_ip", !.ipIdx = 1, !.ns = nss[w.nsIdx]])
    /\ OnlyWk

\* top of the loop over z.IP[nameserver]
AW_GlueIP(i) ==
    /\ wk[i].pc = "aw_ip"
    /\ LET w == wk[i]
           ips == ZoneIPOf(w.ns) IN
       Set(i, IF w.ipIdx > Len(ips) THEN [w EXCEPT !.pc = "aw_ns", !.nsIdx = @ + 1]
              ELSE IF AttemptKey(ips[w.ipIdx]) \in w.attempted
                   THEN [w EXCEPT !.ipIdx = @ + 1]
                   ELSE CallAxfrRetry(w, ips[w.ipIdx], disk))
    /\ OnlyWk

\* the locals of axfrRetry, axfr and axfrToFile go out of scope
ForgetAttempt(w) ==
    [w EXCEPT !.try = 0, !.records = 0, !.rErr = NoErr, !.rAny = FALSE, !.f = NoFile,
              !.envelope = 0, !.nAxfr = 0, !.nSleep = 0, !.connErr = FALSE, !.cause = "",
              !.etext = "", !.disk0 = EmptyDisk, !.ip = IP4(0), !.err = NoErr]

\* axfrWorker after axfrRetry returned (anySuccess, err): TRUE if it returns nil
WorkerStops(anySuccess, err) == err = NoErr /\ anySuccess

AW_AfterRetry(i) ==
    /\ wk[i].pc = "aw_after"
    /\ LET w == wk[i] IN
       Set(i, IF WorkerStops(w.anySuccess, w.err) THEN Return(w, NoErr)
              ELSE [ForgetAttempt(w) EXCEPT
                             !.ipIdx = @ + 1,
                             !.pc = IF w.phase = "glue" THEN "aw_ip" ELSE "aw_qip"])
    /\ OnlyWk

\* the retry loop around resolve.Resolve(ctx, domain, dns.TypeNS)
AW_ResolveNS(i) ==
    /\ wk[i].pc = "aw_resolve"
    /\ LET w == wk[i] IN
       \/ \E ans \in ResolveAnswers :
            Set(i, [w EXCEPT !.qNS = ans, !.nsIdx = 1, !.phase = "query", !.pc = "aw_qns"])
       \/ Set(i, IF cancelled THEN Return(w, CtxErr)
                 ELSE IF w.try + 1 < retry THEN [w EXCEPT !.try = @ + 1]
                 ELSE [w EXCEPT !.qNS = << >>, !.nsIdx = 1, !.phase = "query",
                                !.pc = "aw_qns"])
    /\ OnlyWk

\* top of the loop over qNameservers
AW_QueryNS(i) ==
    /\ wk[i].pc = "aw_qns"
    /\ LET w == wk[i] IN
       Set(i, IF w.nsIdx > Len(w.qNS) THEN [w EXCEPT !.pc = "aw_end"]
              ELSE IF cancelled THEN Return(w, CtxErr)
              ELSE [w EXCEPT !.pc = "aw_lookup", !.try = 0, !.ns = w.qNS[w.nsIdx]])
    /\ OnlyWk

\* the retry loop around resolve.LookupIPAll(ctx, nameserver)
AW_LookupIP(i) ==
    /\ wk[i].pc = "aw_lookup"
    /\ LET w == wk[i] IN
       \/ \E ans \in LookupAnswers :
            Set(i, [w EXCEPT !.qIPs = ans, !.ipIdx = 1, !.err = NoErr, !.pc = "aw_qip"])
       \/ Set(i, IF cancelled THEN Return(w, CtxErr)
                 ELSE IF w.try + 1 < retry
                      THEN [w EXCEPT !.try = @ + 1, !.err = <<"lookup failed">>]
                      ELSE [w EXCEPT !.qIPs = << >>, !.ipIdx = 1,
                                     !.err = <<"lookup failed">>, !.pc = "aw_qip"])
    /\ OnlyWk

\* top of the loop over qIPs
AW_QueryIP(i) ==
    /\ wk[i].pc = "aw_qip"
    /\ LET w == wk[i] IN
       Set(i, IF w.ipIdx > Len(w.qIPs) THEN [w EXCEPT !.pc = "aw_qns", !.nsIdx = @ + 1]
              ELSE IF cancelled THEN Return(w, CtxErr)
              ELSE IF AttemptKey(w.qIPs[w.ipIdx]) \in w.attempted
                   THEN [w EXCEPT !.ipIdx = @ + 1]
                   ELSE CallAxfrRetry(w, w.qIPs[w.ipIdx], disk))
    /\ OnlyWk

\* lines 141-146
AW_End(i) ==
    /\ wk[i].pc = "aw_end"
    /\ LET w == wk[i] IN
       Set(i, IF ~w.anySuccess /\ statusOn
              THEN StatusCall([w EXCEPT !.ret = NoErr], "ft_lad", w.zone,
                              "no successful zone transfers", "wk_ret")
              ELSE Return(w, NoErr))
    /\ OnlyWk

\* ---- axfrToFile
\* the deferred function of lines 278-287, then the return of (records, err) to axfr
Finalize(w, d, records, err, cause) ==
    LET c == WriteComment(w.f, d, Line("envelopes", <<"n", w.envelope>>))
        r == Finish(c.f, c.d) IN
    [w |-> [w EXCEPT !.f = NoFile, !.records = records, !.rErr = err, !.cause = cause,
                     !.pc = "ax_ret"],
     d |-> r.d]

\* the writer after lines 277 and 288-307
OpenWriter(w) ==
    LET f0 == New(w.zone, Filename(w.zone, w.ns, w.ip))
        c1 == WriteComment(f0, EmptyDisk, Line("Generated by ALLXFR", << >>))
        c2 == WriteComment(c1.f, EmptyDisk, Line("nameserver", <<w.ns>>))
        c3 == WriteComment(c2.f, EmptyDisk, Line("nameserverIP", IPString(w.ip)))
        c4 == WriteComment(c3.f, EmptyDisk, Line("xfr", <<"AXFR">>))
    IN  c4.f

\* a check that lets an existing file be written over
SkipsExisting_Never(w, d) == FALSE

\* lines 270-275: without -overwrite a file that exists is left alone
SkipsExisting(w, d) == ~overwrite /\ Filename(w.zone, w.ns, w.ip) \in DOMAIN d

\* lines 254-307: the connection, the check for an existing file, the writer
AF_Dial(i) ==
    /\ wk[i].pc = "af_dial"
    /\ LET w == wk[i] IN
       \E connected \in BOOLEAN :
         Set(i, IF cancelled \/ ~connected
                THEN [w EXCEPT !.records = 0, !.rErr = NoErr, !.cause = "connect",
                               !.connErr = TRUE, !.pc = "ax_ret"]
                ELSE IF SkipsExisting(w, disk)
                     THEN [w EXCEPT !.records = -1, !.rErr = NoErr, !.cause = "exists",
                                    !.pc = "ax_ret"]
                     ELSE [w EXCEPT !.f = OpenWriter(w), !.envelope = 0, !.pc = "af_stream"])
    /\ OnlyWk

\* "for e := range env" when the channel is closed: line 336
AF_StreamEnd(i) ==
    /\ wk[i].pc = "af_stream"
    /\ LET r == Finalize(wk[i], disk, wk[i].f.records, NoErr, "end") IN
         /\ Set(i, r.w)
         /\ disk' = r.d
    /\ UNCHANGED <<unitVars, flag, cancelled, todo, closed, totalXFR, ss, cl, now, hist>>

\* the envelopes a server may send
Envelopes ==
    [error : {NoErr}, rr : 0 .. MaxRR] \cup [error : { <<t>> : t \in EnvelopeErrors }, rr : {0}]

\* a dry run that wants more than one RR in the envelope
DryRunStops_MoreThanOne(e) == dryRun /\ e.rr > 1

\* line 323: in dry-run mode the first envelope with records ends the transfer
DryRunStops(e) == dryRun /\ e.rr > 0

\* "for e := range env" for one envelope: lines 309-334
AF_Envelope(i) ==
    /\ wk[i].pc = "af_stream"
    /\ \E e \in Envelopes :
         /\ e.error = NoErr => wk[i].envelope < MaxEnv
         /\ LET w == wk[i]
                a == AddEnvelope(w.f, disk, w.envelope, e.rr, 1)
                r == IF cancelled THEN Finalize(w, disk, w.f.records, CtxErr, "cancel")
                     ELSE IF e.error # NoErr
                     THEN Finalize([w EXCEPT !.etext = e.error[1]], disk, w.f.records,
                                   <<"transfer envelope error">>
                                      \o ErrorAxfrUnsupportedWrap(e.error),
                                   "enverr")
                     ELSE IF DryRunStops(e) THEN Finalize(w, disk, e.rr, NoErr, "dryrun")
                     ELSE [w |-> [w EXCEPT !.f = a.f, !.envelope = @ + 1], d |-> a.d]
            IN  /\ Set(i, r.w)
                /\ disk' = r.d
    /\ UNCHANGED <<unitVars, flag, cancelled, todo, closed, totalXFR, ss, cl, now, hist>>

\* ---- axfr: lines 197-207
TransferCounts(records, err) == err = NoErr /\ records > 0

AX_Return(i) ==
    /\ wk[i].pc = "ax_ret"
    /\ LET w == [wk[i] EXCEPT
                   !.hRecKey = IF @ = << >> /\ wk[i].records > 0
                               THEN IPString(To16(wk[i].ip)) ELSE @]
       IN IF TransferCounts(w.records, w.rErr)
          THEN /\ totalXFR' = Inc32(totalXFR)
               /\ Set(i, IF statusOn THEN StatusCall(w, "ct_lad", w.zone, "", "ar_after")
                         ELSE [w EXCEPT !.pc = "ar_after"])
          ELSE /\ UNCHANGED totalXFR
               /\ Set(i, [w EXCEPT !.pc = "ar_after"])
    /\ UNCHANGED <<unitVars, flag, cancelled, todo, closed, disk, ss, cl, now, hist>>

\* context cancellation
Cancel ==
    /\ ~cancelled
    /\ cancelled' = TRUE
    /\ UNCHANGED <<unitVars, flag, todo, closed, wk, disk, totalXFR, ss, cl, now, hist>>

\* ------------------------------------------------------------ specifications
InitStatusServer ==
    [active |-> EmptyMap, activeCount |-> 0, completed |-> 0, failed |-> 0,
     recentFailed |-> << >>,
     totalZones |-> IF flag.status THEN Cardinality(DOMAIN NSMap) ELSE 0]

\* ------------------------------------------------- resolver: the DNS cache
\* A dnsCache is a map from key to node and a doubly linked list of the nodes
\* between two sentinels, most recently used first.  A node is named by its
\* key (the map holds one node per key); `cache` is the key set of the map,
\* `entry`, `next` and `prev` are the fields of the nodes.
defaultCacheSize == 1000

CacheKeys == {"k1", "k2", "k3"}
NilNode   == "nil"
HeadNode  == "head"
TailNode  == "tail"
CacheNodes == CacheKeys \cup {HeadNode, TailNode}

NoEntry == [result |-> 0, expiry |-> 0, lastUsed |-> 0, negative |-> FALSE]

newDNSCache(capacity) ==
    [capacity |-> IF capacity <= 0 THEN defaultCacheSize ELSE capacity,
     cache    |-> {},
     entry    |-> [k \in CacheKeys |-> NoEntry],
     next     |-> [n \in CacheNodes |-> IF n = HeadNode THEN TailNode ELSE NilNode],
     prev     |-> [n \in CacheNodes |-> IF n = TailNode THEN HeadNode ELSE NilNode]]

addToHead(c, node) ==
    LET first == c.next[HeadNode]
    IN  [c EXCEPT !.prev = [@ EXCEPT ![node] = HeadNode, ![first] = node],
                  !.next = [@ EXCEPT ![node] = first, ![HeadNode] = node]]

removeNode(c, node) ==
    LET p == c.prev[node]
        n == c.next[node]
    IN  [c EXCEPT !.next = [@ EXCEPT ![p] = n],
                  !.prev = [@ EXCEPT ![n] = p]]

moveToHead(c, node) == addToHead(removeNode(c, node), node)

\* the cache without its last node, and that node
removeTail(c) ==
    LET lastNode == c.prev[TailNode]
    IN  [c |-> removeNode(c, lastNode), node |-> lastNode]

\* delete(c.cache, key): the node is no longer referenced by the map; once it
\* is out of the list as well it is garbage, and its fields are forgotten
delete(c, key) ==
    [c EXCEPT !.cache = @ \ {key},
              !.entry = [@ EXCEPT ![key] = NoEntry],
              !.next  = [@ EXCEPT ![key] = NilNode],
              !.prev  = [@ EXCEPT ![key] = NilNode]]

\* get without the removal of an expired node from the list
get_KeepsNode(c, key, t) ==
    IF key \notin c.cache
    THEN [c |-> c, result |-> 0, found |-> FALSE]
    ELSE IF t > c.entry[key].expiry
         THEN [c |-> [c EXCEPT !.cache = @ \ {key}], result |-> 0, found |-> FALSE]
         ELSE [c |-> moveToHead([c EXCEPT !.entry = [@ EXCEPT ![key].lastUsed = t]], key),
               result |-> c.entry[key].result, found |-> TRUE]

\* get without the move of the node to the head of the list
get_NoTouch(c, key, t) ==
    IF key \notin c.cache
    THEN [c |-> c, result |-> 0, found |-> FALSE]
    ELSE IF t > c.entry[key].expiry
         THEN [c |-> delete(removeNode(c, key), key), result |-> 0, found |-> FALSE]
         ELSE [c |-> [c EXCEPT !.entry = [@ EXCEPT ![key].lastUsed = t]],
               result |-> c.entry[key].result, found |-> TRUE]

\* get at time t: the cache afterwards, the result and whether it was found
get(c, key, t) ==
    IF key \notin c.cache
    THEN [c |-> c, result |-> 0, found |-> FALSE]
    ELSE IF t > c.entry[key].expiry
         THEN [c |-> delete(removeNode(c, key), key), result |-> 0, found |-> FALSE]
         ELSE [c |-> moveToHead([c EXCEPT !.entry = [@ EXCEPT ![key].lastUsed = t]], key),
               result |-> c.entry[key].result, found |-> TRUE]

\* putWithNegative at time t: the cache afterwards and the key it evicted
putWithNegative(c, key, result, ttl, negative, t) ==
    LET entry == [result |-> result, expiry |-> t + ttl, lastUsed |-> t,
                  negative |-> negative]
    IN  IF key \in c.cache
        THEN [c |-> moveToHead([c EXCEPT !.entry = [@ EXCEPT ![key] = entry]], key),
              evicted |-> NilNode]
        ELSE LET c1 == addToHead([c EXCEPT !.cache = @ \cup {key},
                                           !.entry = [@ EXCEPT ![key] = entry]], key)
             IN  IF Cardinality(c1.cache) > c1.capacity
                 THEN LET r == removeTail(c1)
                      IN  [c |-> delete(r.c, r.node), evicted |-> r.node]
                 ELSE [c |-> c1, evicted |-> NilNode]

put(c, key, result, ttl, t) == putWithNegative(c, key, result, ttl, FALSE, t)

putNegative(c, key, result, ttl, t) == putWithNegative(c, key, result, ttl, TRUE, t)

\* the keys of the list from node n on, following next (prev when ~fwd), at
\* most k of them
RECURSIVE ListFrom(_, _, _, _)
ListFrom(c, n, fwd, k) ==
    IF k = 0 \/ n \notin CacheKeys
    THEN << >>
    ELSE <<n>> \o ListFrom(c, IF fwd THEN c.next[n] ELSE c.prev[n], fwd, k - 1)

LRUList(c)    == ListFrom(c, c.next[HeadNode], TRUE, Cardinality(CacheKeys) + 1)
LRUListRev(c) == ListFrom(c, c.prev[TailNode], FALSE, Cardinality(CacheKeys) + 1)

\* ------------------------------------------- resolver: the TTL of a result
ttlCeiling == 3600
ttlFloor   == 60
ttlDefault == 300
RcodeSuccess   == 0
RcodeNameError == 3
TypeA == 1
TypeNS == 2
TypeAAAA == 28
TypeCNAME == 5
maxFailures == 5
circuitBreakerTTL == 60
NilResult == << >>

\* the scan of one section: Answer looks at the header TTL only, Authority at
\* the SOA minimum as well when the result is a name error
RECURSIVE scanTTL(_, _, _, _)
scanTTL(rrs, minTTL, authority, rcode) ==
    IF rrs = << >>
    THEN minTTL
    ELSE LET rr == Head(rrs)
             m1 == IF rr.Ttl < minTTL THEN rr.Ttl ELSE minTTL
             m2 == IF authority /\ rcode = RcodeNameError /\ rr.soa /\ rr.Minttl < m1
                   THEN rr.Minttl ELSE m1
         IN  scanTTL(Tail(rrs), m2, authority, rcode)

\* in seconds
calculateTTL_NoFloor(result) ==
    IF result = NilResult
    THEN 0
    ELSE LET a == scanTTL(result.Answer, ttlCeiling, FALSE, result.Rcode)
             m == scanTTL(result.Authority, a, TRUE, result.Rcode)
         IN  IF m = ttlCeiling /\ Len(result.Answer) = 0 /\ Len(result.Authority) = 0
             THEN ttlDefault
             ELSE m

calculateTTL(result) ==
    IF result = NilResult
    THEN 0
    ELSE LET a == scanTTL(result.Answer, ttlCeiling, FALSE, result.Rcode)
             m == scanTTL(result.Authority, a, TRUE, result.Rcode)
         IN  IF m = ttlCeiling /\ Len(result.Answer) = 0 /\ Len(result.Authority) = 0
             THEN ttlDefault
             ELSE IF m < ttlFloor THEN ttlFloor ELSE m

\* the components exercised on their own are idle in a run of the program
ZnIdle    == [NS |-> {}, sent |-> {}]
FwIdle    == [f |-> NoFile, calls |-> << >>, err |-> NoErr]
CacheIdle == [c |-> newDNSCache(1), now |-> 0, calls |-> << >>]
MsgIdle   == [in |-> NilResult, ttl |-> 0, done |-> FALSE]
RsIdle    == [calls |-> << >>]

InitCommon ==
    /\ zn = ZnIdle /\ fw = FwIdle /\ cache = CacheIdle /\ msg = MsgIdle /\ rs = RsIdle
    /\ cancelled = FALSE
    /\ totalXFR = 0
    /\ ss = InitStatusServer
    /\ cl = [pc |-> "wait", fired |-> FALSE, now |-> 0, keys |-> {}, key |-> << >>]
    /\ now = 0
    /\ hist = [started |-> [z \in ZoneNames |-> 0], won |-> [z \in ZoneNames |-> 0],
               calls |-> 0, handed |-> [z \in ZoneNames |-> << >>]]

\* a run of the program with -parallel 1: the flags are any the program accepts,
\* the output directory is empty or holds the file of an earlier run for "a."
Init ==
    /\ flag \in [saveAll : BOOLEAN, dryRun : BOOLEAN, overwrite : BOOLEAN,
                 retry : 1 .. MaxRetry, status : BOOLEAN, parallel : {1}]
    /\ todo = DOMAIN NSMap
    /\ closed = FALSE
    /\ wk = [i \in Workers |-> W0(IF i <= flag.parallel THEN "recv" ELSE "off")]
    /\ disk \in { EmptyDisk,
                  DiskPut(EmptyDisk, Filename(<<"a", Dot>>, "ns1", IP4(1)),
                          << Line("old", << >>) >>) }
    /\ InitCommon

WorkerStep(i) ==
    \/ W_Recv(i) \/ W_Closed(i) \/ W_After(i)
    \/ AW_Start(i) \/ AW_GlueNS(i) \/ AW_GlueIP(i) \/ AW_AfterRetry(i)
    \/ AW_ResolveNS(i) \/ AW_QueryNS(i) \/ AW_LookupIP(i) \/ AW_QueryIP(i) \/ AW_End(i)
    \/ AR_After(i) \/ AR_Sleep(i) \/ AR_Exit(i)
    \/ AF_Dial(i) \/ AF_StreamEnd(i) \/ AF_Envelope(i) \/ AX_Return(i)

Next ==
    \/ Prod_Skip \/ Prod_Close
    \/ \E i \in Workers : WorkerStep(i) \/ StatusStep(i)

Spec == Init /\ [][Next]_vars

\* the same run when the context may be cancelled at any moment
NextCtx == Next \/ Cancel

SpecCtx == Init /\ [][NextCtx]_vars

\* a dry run with any number of workers up to MaxParallel (first-hit mode, one
\* try, no status server); every goroutine that can take a step eventually
\* takes one
InitPar ==
    /\ flag \in [saveAll : {FALSE}, dryRun : {TRUE}, overwrite : {FALSE},
                 retry : {1}, status : {FALSE}, parallel : 1 .. MaxParallel]
    /\ todo = DOMAIN NSMap
    /\ closed = FALSE
    /\ wk = [i \in Workers |-> W0(IF i <= flag.parallel THEN "recv" ELSE "off")]
    /\ disk = EmptyDisk
    /\ InitCommon

NextPar ==
    \/ Prod_Skip \/ Prod_Close
    \/ \E i \in Workers : WorkerStep(i)

SpecPar ==
    /\ InitPar /\ [][NextPar]_vars
    /\ WF_vars(Prod_Skip) /\ WF_vars(Prod_Close)
    /\ \A i \in Workers : WF_vars(WorkerStep(i))

\* the status aggregator under arbitrary callers, with its cleanup goroutine
InitStatus ==
    /\ flag = [saveAll |-> FALSE, dryRun |-> FALSE, overwrite |-> FALSE, retry |-> 1,
               status |-> TRUE, parallel |-> MaxParallel]
    /\ todo = {}
    /\ closed = TRUE
    /\ wk = [i \in Workers |-> W0("api")]
    /\ disk = EmptyDisk
    /\ InitCommon

NextStatus ==
    \/ \E i \in Workers :
         \/ Api_StartTransfer(i) \/ Api_CompleteTransfer(i) \/ Api_FailTransfer(i)
         \/ StatusStep(i)
    \/ Cleanup
    \/ Tick

SpecStatus == InitStatus /\ [][NextStatus]_vars

\* the run with a status server, its stale-entry cleanup and the clock: one
\* worker, one attempt per address, a dry run (nothing is written)
InitClean ==
    /\ flag = [saveAll |-> FALSE, dryRun |-> TRUE, overwrite |-> FALSE, retry |-> 1,
               status |-> TRUE, parallel |-> 1]
    /\ todo = DOMAIN NSMap
    /\ closed = FALSE
    /\ wk = [i \in Workers |-> W0(IF i <= flag.parallel THEN "recv" ELSE "off")]
    /\ disk = EmptyDisk
    /\ InitCommon

NextClean == Next \/ Cleanup \/ Tick

SpecClean == InitClean /\ [][NextClean]_vars

\* ---- the program idle: what the components on their own leave alone
ProgIdle ==
    /\ flag = [saveAll |-> FALSE, dryRun |-> FALSE, overwrite |-> FALSE, retry |-> 1,
               status |-> FALSE, parallel |-> 1]
    /\ wk = [i \in Workers |-> W0("off")]
    /\ cancelled = FALSE
    /\ totalXFR = 0
    /\ ss = InitStatusServer
    /\ cl = [pc |-> "wait", fired |-> FALSE, now |-> 0, keys |-> {}, key |-> << >>]
    /\ now = 0
    /\ hist = [started |-> [z \in ZoneNames |-> 0], won |-> [z \in ZoneNames |-> 0],
               calls |-> 0, handed |-> [z \in ZoneNames |-> << >>]]

\* ---- GetNameChan on its own, for any NS map AddNS can build
\* domain names as they reach AddNS: from a zone file, the command line, the PSL
RawNames ==
    { <<Dot>>, <<"arpa", Dot>>, <<"ARPA", Dot>>, <<"in-addr", Dot, "arpa", Dot>>,
      <<"A", Dot, "ARPA", Dot>>, <<"arpa">>, <<"in-addr", Dot, "arpa">>, <<"a", Dot>>,
      <<"arpa", Dot, "a", Dot>> }

RECURSIVE AddAllNS(_, _)
AddAllNS(keys, names) ==
    IF names = {} THEN keys
    ELSE LET d == CHOOSE x \in names : TRUE IN AddAllNS(AddNS(keys, d), names \ {d})

InitZone ==
    /\ \E names \in SUBSET RawNames :
         /\ todo = AddAllNS({}, names)
         /\ zn = [NS |-> AddAllNS({}, names), sent |-> {}]
    /\ closed = FALSE
    /\ disk = EmptyDisk
    /\ fw = FwIdle /\ cache = CacheIdle /\ msg = MsgIdle /\ rs = RsIdle
    /\ ProgIdle

\* "out <- domain" with a receiver that keeps what it gets
Zn_Send ==
    /\ \E d \in todo :
         /\ ~SkippedName(d)
         /\ todo' = todo \ {d}
         /\ zn' = [zn EXCEPT !.sent = @ \cup {d}]
    /\ UNCHANGED <<flag, cancelled, closed, wk, disk, totalXFR, ss, cl, now, hist,
                   fw, cache, msg, rs>>

NextZone == Prod_Skip \/ Prod_Close \/ Zn_Send

SpecZone == InitZone /\ [][NextZone]_vars

\* ---- main: the zone set from a transfer of the root zone
\* the root servers main tries, in the order of resolver.RootServerNames
RootServerNames == <<"a.root-servers.net", "b.root-servers.net", "c.root-servers.net">>

\* the owners of the NS records of the root zone, one record an envelope
RootOwners == <<"a", "b", "c", "d">>

\* root.AddRecord for the records of the first n envelopes
RECURSIVE addRecords(_)
addRecords(n) ==
    IF n = 0 THEN {} ELSE AddNS(addRecords(n - 1), <<RootOwners[n], Dot>>)

\* zone.RootAXFR against a server that cannot be reached (dial is FALSE), or
\* that sends envs envelopes and then an envelope with an error or the end
RootAXFR(dial, envs, error) ==
    IF ~dial THEN [root |-> {}, err |-> <<"transfer error">>]
    ELSE [root |-> addRecords(envs),
          err |-> IF error THEN <<"transfer envelope error">> ELSE NoErr]

BootVars == <<flag, cancelled, todo, closed, wk, disk, totalXFR, ss, cl, now, hist,
              fw, cache, msg, rs>>

InitBoot ==
    /\ ProgIdle
    /\ zn = [pc |-> "loop", idx |-> 1, NS |-> {}, err |-> NoErr, tried |-> << >>]
    /\ disk = EmptyDisk
    /\ todo = {} /\ closed = TRUE
    /\ fw = FwIdle /\ cache = CacheIdle /\ msg = MsgIdle /\ rs = RsIdle

\* main, one turn of the loop over the root servers: z, err = RootAXFR(ns),
\* and the loop ends when err is nil
Boot_RootAXFR ==
    /\ zn.pc = "loop"
    /\ \E dial \in BOOLEAN, envs \in 0 .. MaxRootEnv, error \in BOOLEAN :
         /\ ~dial => envs = 0 /\ ~error
         /\ LET r == RootAXFR(dial, envs, error) IN
            zn' = [zn EXCEPT
                     !.NS = r.root, !.err = r.err,
                     !.tried = Append(@, [ns |-> RootServerNames[zn.idx],
                                          root |-> r.root, err |-> r.err]),
                     !.idx = @ + 1,
                     !.pc = IF r.err = NoErr \/ zn.idx = Len(RootServerNames)
                            THEN "count" ELSE "loop"]
    /\ UNCHANGED BootVars

\* main after the loop: an empty zone set is fatal, any other goes to the
\* workers through GetNameChan
Boot_CountNS ==
    /\ zn.pc = "count"
    /\ zn' = [zn EXCEPT !.pc = IF Cardinality(zn.NS) = 0 THEN "fatal" ELSE "workers"]
    /\ UNCHANGED BootVars

NextBoot == Boot_RootAXFR \/ Boot_CountNS

SpecBoot == InitBoot /\ [][NextBoot]_vars

\* ---- a save.File on its own, under any sequence of calls
InitWriter ==
    /\ ProgIdle
    /\ fw = [f |-> New(<<"a", Dot>>, Filename(<<"a", Dot>>, "ns1", IP4(1))),
             calls |-> << >>, err |-> NoErr]
    /\ disk = EmptyDisk
    /\ todo = {} /\ closed = TRUE
    /\ zn = ZnIdle /\ cache = CacheIdle /\ msg = MsgIdle /\ rs = RsIdle

\* one call: op is the method, r its result; every line written carries the
\* number of the call that wrote it
Fw_Call(op, r) ==
    /\ fw' = [f |-> r.f, calls |-> Append(fw.calls, op), err |-> r.err]
    /\ disk' = r.d
    /\ UNCHANGED <<flag, cancelled, todo, closed, wk, totalXFR, ss, cl, now, hist,
                   zn, cache, msg, rs>>

Fw_WriteComment ==
    /\ Len(fw.calls) < MaxOps
    /\ Fw_Call("WriteComment",
               WriteComment(fw.f, disk, Line("comment", <<Len(fw.calls) + 1>>)))

Fw_AddRR ==
    /\ Len(fw.calls) < MaxOps
    /\ Fw_Call("AddRR", AddRR(fw.f, disk, <<Len(fw.calls) + 1>>))

Fw_Finish ==
    /\ Len(fw.calls) < MaxOps
    /\ Fw_Call("Finish", Finish(fw.f, disk))

Fw_Abort ==
    /\ Len(fw.calls) < MaxOps
    /\ Fw_Call("Abort", Abort(fw.f, disk))

NextWriter == Fw_WriteComment \/ Fw_AddRR \/ Fw_Finish \/ Fw_Abort

SpecWriter == InitWriter /\ [][NextWriter]_vars

\* ---- a dnsCache on its own, under any sequence of calls and any passing of
\* time; the result stored by a put is the number of the call
ShortTTL  == 1
LongTTL   == MaxClock + 1
CacheTTLs == {ShortTTL, LongTTL}

InitCache ==
    /\ ProgIdle
    /\ \E capacity \in 0 .. MaxCapacity :
         cache = [c |-> newDNSCache(capacity), now |-> 0, calls |-> << >>]
    /\ disk = EmptyDisk
    /\ todo = {} /\ closed = TRUE
    /\ zn = ZnIdle /\ fw = FwIdle /\ msg = MsgIdle /\ rs = RsIdle

CacheCall(op, key, ttl, c, found, result, evicted) ==
    /\ cache' = [c |-> c, now |-> cache.now,
                 calls |-> Append(cache.calls,
                                  [op |-> op, key |-> key, ttl |-> ttl, at |-> cache.now,
                                   found |-> found, result |-> result,
                                   evicted |-> evicted])]
    /\ UNCHANGED <<flag, cancelled, todo, closed, wk, disk, totalXFR, ss, cl, now, hist,
                   zn, fw, msg, rs>>

Cache_Put ==
    /\ Len(cache.calls) < MaxCacheOps
    /\ \E key \in CacheKeys, ttl \in CacheTTLs :
         LET n == Len(cache.calls) + 1
             r == put(cache.c, key, n, ttl, cache.now)
         IN  CacheCall("put", key, ttl, r.c, FALSE, n, r.evicted)

\* a negative result is kept for the short time only
Cache_PutNegative ==
    /\ Len(cache.calls) < MaxCacheOps
    /\ \E key \in CacheKeys, ttl \in {ShortTTL} :
         LET n == Len(cache.calls) + 1
             r == putNegative(cache.c, key, n, ttl, cache.now)
         IN  CacheCall("putNegative", key, ttl, r.c, FALSE, n, r.evicted)

Cache_Get ==
    /\ Len(cache.calls) < MaxCacheOps
    /\ \E key \in CacheKeys :
         LET r == get(cache.c, key, cache.now)
         IN  CacheCall("get", key, 0, r.c, r.found, r.result, NilNode)

\* time passes
Cache_Tick ==
    /\ Len(cache.calls) < MaxCacheOps
    /\ cache.now < MaxClock
    /\ cache' = [cache EXCEPT !.now = @ + 1,
                              !.calls = Append(@, [op |-> "tick", key |-> NilNode,
                                                   ttl |-> 0, at |-> cache.now,
                                                   found |-> FALSE, result |-> 0,
                                                   evicted |-> NilNode])]
    /\ UNCHANGED <<flag, cancelled, todo, closed, wk, disk, totalXFR, ss, cl, now, hist,
                   zn, fw, msg, rs>>

NextCache == Cache_Put \/ Cache_PutNegative \/ Cache_Get \/ Cache_Tick

SpecCache == InitCache /\ [][NextCache]_vars

\* ---- calculateTTL on its own, applied to any result
TTLValues == {59, 60, 3599, 3600, 3601}

SeqsUpTo(S, n) == UNION {[1 .. k -> S] : k \in 0 .. n}

\* a resource record: its header TTL, and the MINIMUM field when it is an SOA
RRs ==
    [Ttl : TTLValues, soa : {FALSE}, Minttl : {0}]
    \cup [Ttl : TTLValues, soa : {TRUE}, Minttl : TTLValues]

Results ==
    [Rcode : {RcodeSuccess, RcodeNameError},
     Answer : SeqsUpTo(RRs, MaxAnswer),
     Authority : SeqsUpTo(RRs, MaxAuthority)]

InitTTL ==
    /\ ProgIdle
    /\ \E result \in Results \cup {NilResult} :
         msg = [in |-> result, ttl |-> 0, done |-> FALSE]
    /\ disk = EmptyDisk
    /\ todo = {} /\ closed = TRUE
    /\ zn = ZnIdle /\ fw = FwIdle /\ cache = CacheIdle /\ rs = RsIdle

TTL_Calculate ==
    /\ ~msg.done
    /\ msg' = [msg EXCEPT !.ttl = calculateTTL(msg.in), !.done = TRUE]
    /\ UNCHANGED <<flag, cancelled, todo, closed, wk, disk, totalXFR, ss, cl, now, hist,
                   zn, fw, cache, rs>>

NextTTL == TTL_Calculate

SpecTTL == InitTTL /\ [][NextTTL]_vars

\* ------------------------------------------------ resolver: the cache keys
\* Strings are sequences of characters here, so that the concatenations of
\* makeCacheKey and of ResolveAll's "_ALL" are real concatenations.
Digits == <<"0", "1", "2", "3", "4", "5", "6", "7", "8", "9">>

\* strconv.FormatUint(uint64(qtype), 10)
RECURSIVE FormatUint(_)
FormatUint(n) ==
    IF n < 10 THEN <<Digits[n + 1]>>
    ELSE FormatUint(n \div 10) \o <<Digits[(n % 10) + 1]>>

makeCacheKey(domain, qtype) == domain \o <<":">> \o FormatUint(qtype)

AllSuffix == <<"_", "A", "L", "L">>

\* ResolveAll caching under the key of Resolve
cacheKey_SharedSpace(fn, domain, qtype) == makeCacheKey(Fqdn(domain), qtype)

\* the cacheKey of Resolve and of ResolveAll for the domain as passed in
cacheKey(fn, domain, qtype) ==
    IF fn = "ResolveAll"
    THEN makeCacheKey(Fqdn(domain) \o AllSuffix, qtype)
    ELSE makeCacheKey(Fqdn(domain), qtype)

\* the query types A, NS, PTR and AAAA
QTypes == {TypeA, TypeNS, 12, TypeAAAA}

\* domain strings: up to MaxPieces pieces, among them the separator of the
\* key, digits and the suffix of ResolveAll
KeyPieces == { <<"a">>, <<Dot>>, <<":">>, <<"1">>, <<"2">>, AllSuffix }

RECURSIVE PieceStrings(_)
PieceStrings(n) ==
    IF n = 0 THEN { << >> }
    ELSE LET shorter == PieceStrings(n - 1)
         IN  shorter \cup { s \o p : s \in shorter, p \in KeyPieces }

KeyDomains == PieceStrings(MaxPieces)

InitKey ==
    /\ ProgIdle
    /\ rs = [calls |-> << >>]
    /\ disk = EmptyDisk
    /\ todo = {} /\ closed = TRUE
    /\ zn = ZnIdle /\ fw = FwIdle /\ cache = CacheIdle /\ msg = MsgIdle

\* the public calls of the resolver: the two that return a result, the two
\* that return addresses, and all four
ResolveFns == {"Resolve", "ResolveAll"}

LookupFns == {"LookupIP", "LookupIPAll"}

PublicFns == {"Resolve", "ResolveAll", "LookupIP", "LookupIPAll"}

\* one call of Resolve or ResolveAll, as far as its cacheKey; two calls are
\* kept, to compare their keys
Key_Call ==
    /\ Len(rs.calls) < 2
    /\ \E fn \in ResolveFns, domain \in KeyDomains, qtype \in QTypes :
         rs' = [rs EXCEPT !.calls = Append(@, [fn |-> fn, domain |-> domain,
                                               qtype |-> qtype,
                                               key |-> cacheKey(fn, domain, qtype)])]
    /\ UNCHANGED <<flag, cancelled, todo, closed, wk, disk, totalXFR, ss, cl, now, hist,
                   zn, fw, cache, msg>>

NextKey == Key_Call

SpecKey == InitKey /\ [][NextKey]_vars

\* --------------------------------------------- resolver: recursive resolution
maxRecursionDepth == 30
RcodeServerFailure == 2
TypeSOA == 6

\* the name that is asked for: a nameserver that lies in the zone it serves,
\* so that the glue record of a referral is the address record of the answer
QName    == <<"n", Dot, "a", Dot>>
ZoneName == <<"a", Dot>>

\* getRootServers(): the addresses of the root servers, and the address the
\* glue of a referral leads to
RootServers == {"r1", "r2"}
ZoneServer  == "n1"
Servers     == RootServers \cup {ZoneServer}

RRec(name, rtype, data) ==
    [name |-> name, rtype |-> rtype, data |-> data, Ttl |-> ttlDefault,
     soa |-> FALSE, Minttl |-> 0]

AnswerRR(qtype) == RRec(QName, qtype, IF qtype = TypeA THEN ZoneServer ELSE "n1v6")

\* a second name, and the CNAME record that makes each name an alias of the other
AliasName == <<"c", Dot, "a", Dot>>
OtherName(qname) == IF qname = QName THEN AliasName ELSE QName
CNAMERR(qname) == RRec(qname, TypeCNAME, OtherName(qname))
NSRR   == RRec(ZoneName, TypeNS, QName)
GlueRR == RRec(QName, TypeA, ZoneServer)
SOARR  == [RRec(ZoneName, TypeSOA, "soa") EXCEPT !.soa = TRUE, !.Minttl = ttlFloor]

\* rr.String(): owner, TTL, type and data as text
rrString(rr) == <<rr.name, rr.Ttl, rr.rtype, rr.data>>

\* what a server does with the question (QName, qtype)
ServerKinds == {"timeout", "answer", "referral", "nxdomain", "servfail"}

\* the dns.Msg a server of that kind sends, as queryNameserver returns it
Response(kind, qname, qtype) ==
    CASE kind = "answer" ->
           [Answer |-> <<[AnswerRR(qtype) EXCEPT !.name = qname]>>, Authority |-> << >>,
            Additional |-> << >>, Rcode |-> RcodeSuccess, Authoritative |-> TRUE]
      [] kind = "cname" ->
           [Answer |-> <<CNAMERR(qname)>>, Authority |-> << >>, Additional |-> << >>,
            Rcode |-> RcodeSuccess, Authoritative |-> TRUE]
      [] kind = "referral" ->
           [Answer |-> << >>, Authority |-> <<NSRR>>, Additional |-> <<GlueRR>>,
            Rcode |-> RcodeSuccess, Authoritative |-> FALSE]
      [] kind = "nxdomain" ->
           [Answer |-> << >>, Authority |-> <<SOARR>>, Additional |-> << >>,
            Rcode |-> RcodeNameError, Authoritative |-> TRUE]
      [] OTHER ->
           [Answer |-> << >>, Authority |-> << >>, Additional |-> << >>,
            Rcode |-> RcodeServerFailure, Authoritative |-> FALSE]

\* one section of one result in mergeResults: the records not seen so far are
\* appended, and rrSeen grows
RECURSIVE mergeSection(_, _, _)
mergeSection(rrs, out, rrSeen) ==
    IF rrs = << >>
    THEN [out |-> out, rrSeen |-> rrSeen]
    ELSE LET key == rrString(Head(rrs))
         IN  IF key \in rrSeen
             THEN mergeSection(Tail(rrs), out, rrSeen)
             ELSE mergeSection(Tail(rrs), Append(out, Head(rrs)), rrSeen \cup {key})

RECURSIVE mergeLoop(_, _, _)
mergeLoop(results, merged, rrSeen) ==
    IF results = << >>
    THEN merged
    ELSE LET result == Head(results)
             rcode  == IF result.Rcode = RcodeSuccess THEN RcodeSuccess
                       ELSE IF merged.Rcode = RcodeServerFailure
                               /\ result.Rcode = RcodeNameError
                            THEN RcodeNameError
                            ELSE merged.Rcode
             an == mergeSection(result.Answer, merged.Answer, rrSeen)
             au == mergeSection(result.Authority, merged.Authority, an.rrSeen)
             ad == mergeSection(result.Additional, merged.Additional, au.rrSeen)
         IN  IF result = NilResult
             THEN mergeLoop(Tail(results), merged, rrSeen)
             ELSE mergeLoop(Tail(results),
                            [Answer |-> an.out, Authority |-> au.out,
                             Additional |-> ad.out, Rcode |-> rcode,
                             Authoritative |-> merged.Authoritative \/ result.Authoritative],
                            ad.rrSeen)

mergeResults(results) ==
    IF results = << >>
    THEN NilResult
    ELSE mergeLoop(results,
                   [Answer |-> << >>, Authority |-> << >>, Additional |-> << >>,
                    Rcode |-> RcodeServerFailure, Authoritative |-> FALSE],
                   {})

\* the targets of the NS records of an authority section
RECURSIVE extractNSRecords(_)
extractNSRecords(authority) ==
    IF authority = << >> THEN << >>
    ELSE (IF Head(authority).rtype = TypeNS THEN <<Fqdn(Head(authority).data)>> ELSE << >>)
         \o extractNSRecords(Tail(authority))

\* the addresses the additional section holds for a name
RECURSIVE additionalMap(_, _)
additionalMap(additional, nsName) ==
    IF additional = << >> THEN << >>
    ELSE (IF Head(additional).name = nsName /\ Head(additional).rtype \in {TypeA, TypeAAAA}
          THEN <<Head(additional).data>> ELSE << >>)
         \o additionalMap(Tail(additional), nsName)

\* net.LookupIP of the host resolver, for a nameserver without glue
HostLookup(nsName) == IF nsName = QName THEN <<ZoneServer>> ELSE << >>

RECURSIVE resolveNameservers(_, _)
resolveNameservers(nsRecords, additional) ==
    IF nsRecords = << >> THEN << >>
    ELSE LET glue == additionalMap(additional, Head(nsRecords))
             rest == resolveNameservers(Tail(nsRecords), additional)
         IN  IF glue # << >> THEN glue \o rest ELSE rest \o HostLookup(Head(nsRecords))

\* the A and AAAA records among the answers, as LookupIP collects them
RECURSIVE AddressesOf(_, _)
AddressesOf(answer, rtype) ==
    IF answer = << >> THEN << >>
    ELSE (IF Head(answer).rtype = rtype THEN <<Head(answer).data>> ELSE << >>)
         \o AddressesOf(Tail(answer), rtype)

\* the orders a list of servers can be ranked or can answer in
Orders(S) == { o \in [1 .. Cardinality(S) -> S] : \A i, j \in DOMAIN o : o[i] = o[j] => i = j }

RangeOf(s) == { s[i] : i \in DOMAIN s }

\* the orders the root servers can be ranked in
RootOrders == Orders(RootServers)

\* the record types the calls ask for
AddrTypes == {TypeA, TypeAAAA}

\* one call of Resolve or ResolveAll in progress: the servers of the level
\* still to be asked (ns, in ranked order) or still to answer (pending), the
\* answers received at this level, and what the call returns; qname is the
\* name the current resolveRecursive asks for, mode tells it from
\* resolveRecursiveAll, stack holds the calls of followCNAME that wait for the
\* answers of a target, and over records that the depth check has failed
NewFrame(fn, qtype) ==
    [pc |-> "start", fn |-> fn, qtype |-> qtype, ns |-> << >>, pending |-> {},
     arrived |-> << >>, depth |-> 0, result |-> NilResult, err |-> NoErr,
     hit |-> FALSE, late |-> FALSE,
     qname |-> QName, mode |-> fn, stack |-> << >>, over |-> FALSE]

FrOff  == [NewFrame("", 0) EXCEPT !.pc = "off"]
NoCall == [fn |-> "", qtype |-> 0, ctxAtCall |-> FALSE]

\* c.put / c.putNegative as far as the key set goes: no entry expires while
\* the calls run, and the capacity (1000) is not reached
CachePut(c, key, result) ==
    [k \in DOMAIN c \cup {key} |-> IF k = key THEN result ELSE c[k]]

\* Resolve / ResolveAll after resolveRecursive(All) has returned: an error is
\* passed on; a result with a TTL is cached when it is NOERROR or NXDOMAIN
Returned(f, fr, result, err) ==
    LET key == cacheKey(fr.fn, QName, fr.qtype)
    IN  IF err # NoErr
        THEN [rs EXCEPT !.fr[f] = [fr EXCEPT !.pc = "done", !.result = NilResult,
                                             !.err = err]]
        ELSE [rs EXCEPT !.fr[f] = [fr EXCEPT !.pc = "done", !.result = result],
                        !.cache = IF result # NilResult /\ calculateTTL(result) > 0
                                     /\ result.Rcode \in {RcodeSuccess, RcodeNameError}
                                  THEN CachePut(@, key, result)
                                  ELSE @]

\* resolveRecursive / resolveRecursiveAll returns: to Resolve / ResolveAll, or
\* to the followCNAME that called it
Ret(f, fr, result, err) ==
    IF fr.stack = << >>
    THEN rs' = Returned(f, fr, result, err)
    ELSE rs' = [rs EXCEPT !.fr[f] = [fr EXCEPT !.pc = "cname", !.result = result,
                                               !.err = err]]

\* the depth check at the head of resolveRecursive / resolveRecursiveAll
DepthExceeded(depth) == depth > maxRecursionDepth

\* the head of resolveRecursive / resolveRecursiveAll for a list of servers
Descend(f, fr, nameservers, depth) ==
    IF DepthExceeded(depth)
    THEN Ret(f, [fr EXCEPT !.over = TRUE], NilResult,
             <<"maximum recursion depth exceeded">>)
    ELSE IF nameservers = << >>
    THEN Ret(f, fr, NilResult, <<"no nameservers available">>)
    ELSE IF fr.mode = "Resolve"
    THEN \E sortedNS \in Orders(RangeOf(nameservers)) :
           rs' = [rs EXCEPT !.fr[f] = [fr EXCEPT !.pc = "level", !.ns = sortedNS,
                                                 !.depth = depth]]
    ELSE rs' = [rs EXCEPT !.fr[f] = [fr EXCEPT !.pc = "wait",
                                               !.pending = RangeOf(nameservers),
                                               !.arrived = << >>, !.depth = depth]]

\* an exchange that goes on after the context is done
ExchangeFails_IgnoresCtx(s) == rs.net[s] = "timeout"

\* the first CNAME record followCNAME follows among the records, 0 if none
FirstCNAME(rrs, originalType) ==
    LET S == { k \in DOMAIN rrs : rrs[k].rtype = TypeCNAME }
    IN  IF originalType = TypeCNAME \/ S = {} THEN 0
        ELSE CHOOSE k \in S : \A j \in S : k <= j

\* followCNAME from the records `rest` on, `acc` being its result so far: the
\* records up to the next CNAME are copied, and the target of that CNAME is
\* resolved from the root servers one level deeper; without a CNAME the
\* caller returns its result with the records collected
Follow(f, fr, result, acc, rest, depth) ==
    LET k == FirstCNAME(rest, fr.qtype)
    IN  IF k = 0
        THEN Ret(f, fr, [result EXCEPT !.Answer = acc \o rest], NoErr)
        ELSE \E roots \in RootOrders :
               Descend(f, [fr EXCEPT !.stack = Append(@, [result |-> result,
                                                          acc |-> acc \o SubSeq(rest, 1, k),
                                                          rest |-> SubSeq(rest, k + 1, Len(rest)),
                                                          depth |-> depth]),
                                     !.mode = "Resolve",
                                     !.qname = rest[k].data],
                       roots, depth + 1)

\* client.Exchange under the call's context: a done context fails the exchange
ExchangeFails(s) == rs.ctx \/ rs.net[s] = "timeout"

NotResolver ==
    UNCHANGED <<flag, cancelled, todo, closed, wk, disk, totalXFR, ss, cl, now, hist,
                zn, fw, cache, msg>>

\* a public call begins: LookupIP and LookupIPAll are two calls of Resolve
\* and of ResolveAll, for A and for AAAA
R_CallOf(fns) ==
    /\ rs.call.fn = ""
    /\ Len(rs.out) < MaxResolverCalls
    /\ \E fn \in fns, qtype \in AddrTypes :
         /\ fn \in LookupFns => qtype = TypeA
         /\ rs' = [rs EXCEPT
              !.call = [fn |-> fn, qtype |-> qtype, ctxAtCall |-> rs.ctx],
              !.fr = CASE fn = "LookupIP" ->
                            <<NewFrame("Resolve", TypeA), NewFrame("Resolve", TypeAAAA)>>
                       [] fn = "LookupIPAll" ->
                            <<NewFrame("ResolveAll", TypeA), NewFrame("ResolveAll", TypeAAAA)>>
                       [] OTHER -> <<NewFrame(fn, qtype), FrOff>>]
    /\ NotResolver

R_Call == R_CallOf(PublicFns)

\* Resolve / ResolveAll up to the first level: the cache is asked first
Fr_Start(f) ==
    /\ rs.fr[f].pc = "start"
    /\ rs.call.fn = "LookupIP" /\ f = 2 => rs.fr[1].pc = "done"
    /\ LET fr  == rs.fr[f]
           key == cacheKey(fr.fn, QName, fr.qtype)
       IN  IF key \in DOMAIN rs.cache
           THEN rs' = [rs EXCEPT !.fr[f] = [fr EXCEPT !.pc = "done", !.hit = TRUE,
                                                      !.result = rs.cache[key]]]
           ELSE \E roots \in RootOrders : Descend(f, fr, roots, 0)
    /\ NotResolver

\* a non-success rcode that is passed on like NXDOMAIN
ReturnsResult_AnyRcode(result) == TRUE

\* resolveRecursive, for a response whose rcode is not NOERROR: NXDOMAIN is
\* returned, any other rcode makes the loop go on
ReturnsResult(result) == result.Rcode = RcodeNameError

\* resolveRecursive: one turn of the loop over the ranked servers
Fr_Query(f) ==
    /\ rs.fr[f].pc = "level"
    /\ LET fr0    == rs.fr[f]
           s      == Head(fr0.ns)
           fr     == [fr0 EXCEPT !.ns = Tail(@), !.late = @ \/ rs.ctx]
           result == Response(rs.net[s], fr.qname, fr.qtype)
           nextNS == resolveNameservers(extractNSRecords(result.Authority),
                                        result.Additional)
           continue ==
               IF fr.ns = << >>
               THEN Ret(f, fr, NilResult, <<"no answer found">>)
               ELSE rs' = [rs EXCEPT !.fr[f] = fr]
       IN  IF ExchangeFails(s) THEN continue
           ELSE IF result.Rcode # RcodeSuccess
           THEN IF ReturnsResult(result)
                THEN Ret(f, fr, result, NoErr)
                ELSE continue
           ELSE IF Len(result.Answer) > 0
           THEN Follow(f, fr, result, << >>, result.Answer, fr.depth)
           ELSE IF Len(result.Authority) > 0
           THEN IF nextNS = << >> THEN continue
                ELSE Descend(f, fr, nextNS, fr.depth + 1)
           ELSE continue
    /\ NotResolver

\* resolveRecursiveAll: the goroutine asking server s delivers its answer
Fr_Exchange(f) ==
    /\ rs.fr[f].pc = "wait"
    /\ \E s \in rs.fr[f].pending :
         rs' = [rs EXCEPT !.fr[f] =
                  [@ EXCEPT !.pending = @ \ {s},
                            !.late = @ \/ rs.ctx,
                            !.arrived = IF ExchangeFails(s) THEN @
                                        ELSE Append(@, Response(rs.net[s], rs.fr[f].qname,
                                                                 rs.fr[f].qtype))]]
    /\ NotResolver

\* resolveRecursiveAll: every server of the level has answered or failed
Fr_Collect(f) ==
    /\ rs.fr[f].pc = "wait"
    /\ rs.fr[f].pending = {}
    /\ LET fr     == rs.fr[f]
           merged == mergeResults(fr.arrived)
           nextNS == resolveNameservers(extractNSRecords(merged.Authority),
                                        merged.Additional)
       IN  IF fr.arrived = << >>
           THEN Ret(f, fr, NilResult, <<"no nameservers responded">>)
           ELSE IF merged.Rcode # RcodeSuccess
           THEN Ret(f, fr, merged, NoErr)
           ELSE IF Len(merged.Answer) > 0
           THEN Follow(f, fr, merged, << >>, merged.Answer, fr.depth)
           ELSE IF Len(merged.Authority) > 0 /\ nextNS # << >>
           THEN Descend(f, fr, nextNS, fr.depth + 1)
           ELSE Ret(f, fr, merged, NoErr)
    /\ NotResolver

\* followCNAME: the resolveRecursive it called for a target has returned; its
\* answers are appended when it returned no error, and the loop goes on
Fr_Follow(f) ==
    /\ rs.fr[f].pc = "cname"
    /\ LET fr0 == rs.fr[f]
           e   == fr0.stack[Len(fr0.stack)]
           fr  == [fr0 EXCEPT !.stack = SubSeq(@, 1, Len(@) - 1),
                              !.result = NilResult, !.err = NoErr]
           acc == IF fr0.err = NoErr /\ Len(fr0.result.Answer) > 0
                  THEN e.acc \o fr0.result.Answer
                  ELSE e.acc
       IN  Follow(f, fr, e.result, acc, e.rest, e.depth)
    /\ NotResolver

\* the addresses LookupIP / LookupIPAll take from one of their two results
IPsOf(fr, rtype) ==
    IF fr.err = NoErr /\ fr.result.Rcode = RcodeSuccess
    THEN AddressesOf(fr.result.Answer, rtype)
    ELSE << >>

\* the public call returns
R_Return ==
    /\ rs.call.fn # ""
    /\ \A f \in 1 .. 2 : rs.fr[f].pc \in {"done", "off"}
    /\ LET f1  == rs.fr[1]
           ips == IPsOf(f1, TypeA) \o IPsOf(rs.fr[2], TypeAAAA)
           lookup == rs.call.fn \in LookupFns
           ret == IF lookup
                  THEN [err |-> IF Len(ips) = 0 THEN <<"no IP addresses found">> ELSE NoErr,
                        n |-> Len(ips)]
                  ELSE [err |-> f1.err,
                        n |-> IF f1.result = NilResult THEN 0 ELSE Len(f1.result.Answer)]
       IN  rs' = [rs EXCEPT
             !.out = Append(@, [fn |-> rs.call.fn, qtype |-> rs.call.qtype,
                                err |-> ret.err, n |-> ret.n,
                                hit |-> f1.hit \/ rs.fr[2].hit,
                                ctxAtCall |-> rs.call.ctxAtCall,
                                late |-> f1.late \/ rs.fr[2].late]),
             !.call = NoCall,
             !.fr = <<FrOff, FrOff>>]
    /\ NotResolver

\* the caller cancels the context of its calls
R_Cancel ==
    /\ ~rs.ctx
    /\ rs' = [rs EXCEPT !.ctx = TRUE]
    /\ NotResolver

InitResolver ==
    /\ ProgIdle
    /\ \E net \in [Servers -> ServerKinds] :
         /\ net[ZoneServer] # "referral"
         /\ rs = [net |-> net, ctx |-> FALSE, cache |-> EmptyMap, call |-> NoCall,
                  fr |-> <<FrOff, FrOff>>, out |-> << >>]
    /\ disk = EmptyDisk
    /\ todo = {} /\ closed = TRUE
    /\ zn = ZnIdle /\ fw = FwIdle /\ cache = CacheIdle /\ msg = MsgIdle

FrameStep(f) == Fr_Start(f) \/ Fr_Query(f) \/ Fr_Exchange(f) \/ Fr_Collect(f)

NextResolver == R_Call \/ R_Return \/ \E f \in 1 .. 2 : FrameStep(f)

SpecResolver == InitResolver /\ [][NextResolver]_vars

NextResolverCtx == NextResolver \/ R_Cancel

SpecResolverCtx == InitResolver /\ [][NextResolverCtx]_vars

\* servers that may also answer with a CNAME, and a delegated server that may
\* refer to itself: chains of aliases and of referrals without end. The root
\* servers serve one zone and answer alike.
DepthKinds == {"cname", "referral", "answer"}

InitDepth ==
    /\ ProgIdle
    /\ \E root \in DepthKinds, zone \in DepthKinds :
         rs = [net |-> [s \in Servers |-> IF s \in RootServers THEN root ELSE zone],
               ctx |-> FALSE, cache |-> EmptyMap, call |-> NoCall,
               fr |-> <<FrOff, FrOff>>, out |-> << >>]
    /\ disk = EmptyDisk
    /\ todo = {} /\ closed = TRUE
    /\ zn = ZnIdle /\ fw = FwIdle /\ cache = CacheIdle /\ msg = MsgIdle

NextDepth ==
    \/ R_CallOf(ResolveFns)
    \/ R_Return
    \/ \E f \in 1 .. 2 : FrameStep(f) \/ Fr_Follow(f)

SpecDepth == InitDepth /\ [][NextDepth]_vars

\* ------------------------------------- resolver: RTT statistics and ranking
\* three servers, the statistics kept for each (none before its first
\* query), a clock in seconds, the last query recorded, and the last ranking
\* made of the current statistics
RankServers == {"s1", "s2", "s3"}

\* the zero time.Time, longer ago than the circuit breaker looks back
ZeroTime == 0 - circuitBreakerTTL

NoStats ==
    [exists |-> FALSE, avgRTT |-> 0, samples |-> 0, lastSeen |-> ZeroTime,
     failures |-> 0, lastFailed |-> ZeroTime]

\* statistics a server can have when the run begins: none, or those left by
\* earlier queries (answered at time 0 in 8 or 16 ms, then failed 4 or 5
\* times or not at all)
StartStats ==
    {NoStats} \cup
    { [exists |-> TRUE, avgRTT |-> q[1], samples |-> IF q[1] = 0 THEN 0 ELSE 1,
       lastSeen |-> IF q[1] = 0 THEN ZeroTime ELSE 0,
       failures |-> q[2], lastFailed |-> IF q[2] = 0 THEN ZeroTime ELSE 0] :
        q \in {<<8, 0>>, <<16, 0>>, <<8, maxFailures - 1>>, <<16, maxFailures - 1>>,
                <<8, maxFailures>>} }

\* the last query recorded by updateRTT, none at first
NoQuery == [ns |-> "", success |-> FALSE]

NoRanking == [done |-> FALSE, input |-> << >>, nsStats |-> << >>, result |-> << >>]

\* updateRTT on the statistics of one server
updateRTT(st, tnow, rtt, success) ==
    IF success
    THEN [st EXCEPT !.exists = TRUE, !.lastSeen = tnow, !.failures = 0,
                    !.avgRTT = IF st.samples = 0 THEN rtt
                               ELSE ((st.avgRTT * 7) \div 8) + (rtt \div 8),
                    !.samples = @ + 1]
    ELSE [st EXCEPT !.exists = TRUE, !.failures = @ + 1, !.lastFailed = tnow]

\* the circuit breaker test with the threshold passed only above 5 failures
circuitOpen_Above(st, tnow) ==
    st.exists /\ st.failures > maxFailures /\ tnow - st.lastFailed < circuitBreakerTTL

\* sortNameserversByRTT: the circuit breaker test on one server's statistics
circuitOpen(st, tnow) ==
    st.exists /\ st.failures >= maxFailures /\ tnow - st.lastFailed < circuitBreakerTTL

\* sortNameserversByRTT: the entry built for one server
nsWithRTT(ns, st, tnow) ==
    [ns |-> ns, rtt |-> IF st.exists THEN st.avgRTT ELSE 0,
     failures |-> IF st.exists THEN st.failures ELSE 0,
     hasStat |-> st.exists, circuitOpen |-> circuitOpen(st, tnow)]

\* the comparison with the failure counts left out
swaps_NoFailures(x, y) ==
    IF x.circuitOpen /\ ~y.circuitOpen THEN TRUE
    ELSE IF ~x.circuitOpen /\ y.circuitOpen THEN FALSE
    ELSE IF ~x.hasStat /\ y.hasStat THEN TRUE
    ELSE IF x.hasStat /\ ~y.hasStat THEN FALSE
    ELSE x.hasStat /\ y.hasStat /\ x.rtt > y.rtt

\* sortNameserversByRTT: the body of the inner loop, TRUE when entries i and j
\* are exchanged
swaps(x, y) ==
    IF x.circuitOpen /\ ~y.circuitOpen THEN TRUE
    ELSE IF ~x.circuitOpen /\ y.circuitOpen THEN FALSE
    ELSE IF x.failures > y.failures THEN TRUE
    ELSE IF x.failures < y.failures THEN FALSE
    ELSE IF ~x.hasStat /\ y.hasStat THEN TRUE
    ELSE IF x.hasStat /\ ~y.hasStat THEN FALSE
    ELSE x.hasStat /\ y.hasStat /\ x.rtt > y.rtt

\* sortNameserversByRTT: the two loops, i and j counted from 1
RECURSIVE sortLoops(_, _, _)
sortLoops(a, i, j) ==
    IF i >= Len(a) THEN a
    ELSE IF j > Len(a) THEN sortLoops(a, i + 1, i + 2)
    ELSE sortLoops(IF swaps(a[i], a[j])
                   THEN [a EXCEPT ![i] = a[j], ![j] = a[i]]
                   ELSE a,
                   i, j + 1)

\* sortNameserversByRTT up to the sorted entries
sortedStats(stats, tnow, nameservers) ==
    sortLoops([k \in DOMAIN nameservers |->
                 nsWithRTT(nameservers[k], stats[nameservers[k]], tnow)], 1, 2)

sortNameserversByRTT(stats, tnow, nameservers) ==
    IF Len(nameservers) <= 1 THEN nameservers
    ELSE [k \in DOMAIN nameservers |-> sortedStats(stats, tnow, nameservers)[k].ns]

InitRank ==
    /\ ProgIdle
    /\ \E stats \in [RankServers -> StartStats] :
         rs = [stats |-> stats, now |-> 0, ops |-> 0, query |-> NoQuery,
               ranking |-> NoRanking]
    /\ disk = EmptyDisk
    /\ todo = {} /\ closed = TRUE
    /\ zn = ZnIdle /\ fw = FwIdle /\ cache = CacheIdle /\ msg = MsgIdle

\* queryNameserver: one query to a server has failed, or was answered after rtt
Rank_Update ==
    /\ rs.ops < MaxRankOps
    /\ \E ns \in RankServers, success \in BOOLEAN, rtt \in {8, 16} :
         /\ ~success => rtt = 8
         /\ rs' = [rs EXCEPT
              !.stats[ns] = updateRTT(@, rs.now, IF success THEN rtt ELSE 0, success),
              !.ops = @ + 1,
              !.query = [ns |-> ns, success |-> success],
              !.ranking = NoRanking]
    /\ NotResolver

\* time passes
Rank_Tick ==
    /\ rs.now + TickSeconds <= MaxRankClock
    /\ rs' = [rs EXCEPT !.now = @ + TickSeconds, !.ranking = NoRanking]
    /\ NotResolver

\* resolveRecursive ranks the servers of a level
Rank_Sort ==
    /\ ~rs.ranking.done
    /\ \E nameservers \in SeqsUpTo(RankServers, MaxRanked) :
         rs' = [rs EXCEPT
              !.ranking = [done |-> TRUE, input |-> nameservers,
                           nsStats |-> IF Len(nameservers) <= 1 THEN << >>
                                       ELSE sortedStats(rs.stats, rs.now, nameservers),
                           result |-> sortNameserversByRTT(rs.stats, rs.now,
                                                           nameservers)]]
    /\ NotResolver

NextRank == Rank_Update \/ Rank_Tick \/ Rank_Sort

SpecRank == InitRank /\ [][NextRank]_vars

\* ------------------------------------------- resolver: mergeResults alone
\* the results handed to mergeResults: up to MaxResults results whose
\* sections hold up to MaxSection of two records
MergeRRs == {GlueRR, NSRR}

MergeInputs ==
    [Answer : SeqsUpTo(MergeRRs, MaxSection), Authority : SeqsUpTo(MergeRRs, MaxSection),
     Additional : SeqsUpTo(MergeRRs, MaxSection),
     Rcode : {RcodeSuccess, RcodeNameError, RcodeServerFailure},
     Authoritative : BOOLEAN]

InitMerge ==
    /\ ProgIdle
    /\ \E results \in SeqsUpTo(MergeInputs, MaxResults) :
         rs = [results |-> results, merged |-> NilResult, done |-> FALSE]
    /\ disk = EmptyDisk
    /\ todo = {} /\ closed = TRUE
    /\ zn = ZnIdle /\ fw = FwIdle /\ cache = CacheIdle /\ msg = MsgIdle

Merge_Call ==
    /\ ~rs.done
    /\ rs' = [rs EXCEPT !.merged = mergeResults(rs.results), !.done = TRUE]
    /\ NotResolver

NextMerge == Merge_Call

SpecMerge == InitMerge /\ [][NextMerge]_vars

\* ------------------------------------------------------------- properties
\* C1: with saveAll (and no dry run), when axfrWorker returns after some
\* candidate IP yielded a transfer with records > 0, every candidate (glue) IP
\* of the zone has been attempted.
C1_SaveAllTriesEveryIP ==
    \A i \in Workers :
        LET w == wk[i]
            nss == ZoneNSOf(w.zone)
            candidates == UNION { { IPString(To16(ZoneIPOf(nss[n])[k])) :
                                       k \in 1 .. Len(ZoneIPOf(nss[n])) } :
                                  n \in 1 .. Len(nss) }
        IN  (saveAll /\ ~dryRun /\ w.pc = "wk_ret" /\ w.hRecKey # << >>)
               => candidates \subseteq w.attempted

\* C2: within one call of axfrRetry, once the connection to the IP has failed,
\* axfr has been called exactly once: there is no second attempt.
C2_ConnectErrorNoRetry ==
    \A i \in Workers : wk[i].connErr => wk[i].nAxfr <= 1

\* C3: when the first envelope of an attempt carries a transfer error with
\* rcode 5 or 9, the error returned by axfr has ErrAxfrUnsupported in its
\* chain, the attempt left the disk as it found it, axfrRetry leaves its loop
\* without a sleep or another call of axfr and returns a nil error, and
\* axfrWorker moves to the next candidate IP.
C3_UnsupportedSkipsIP ==
    /\ [](\A i \in Workers :
            LET w == wk[i] IN
            (w.cause = "enverr" /\ w.etext \in {Rcode5Text, Rcode9Text} /\ w.envelope = 0) =>
              /\ w.records = 0
              /\ disk = w.disk0
              /\ w.pc \in {"ax_ret", "ar_after", "ar_exit", "aw_after"}
              /\ w.pc \in {"ax_ret", "ar_after"}
                    => ErrorsIs(w.rErr, ErrAxfrUnsupported)
              /\ w.pc \in {"ar_exit", "aw_after"}
                    => w.rErr = NoErr /\ ~w.rAny /\ w.nSleep = w.nAxfr - 1
              /\ w.pc = "aw_after" => w.err = NoErr /\ ~w.anySuccess)
    /\ [][\A i \in Workers :
            (/\ wk[i].cause = "enverr" /\ wk[i].etext \in {Rcode5Text, Rcode9Text}
             /\ wk[i].envelope = 0
             /\ wk'[i] # wk[i]) =>
              /\ wk[i].pc = "ar_after"
                    => wk'[i].pc = "ar_exit" /\ wk'[i].nAxfr = wk[i].nAxfr
              /\ wk[i].pc = "aw_after"
                    => /\ wk'[i].pc \in {"aw_ip", "aw_qip"}
                       /\ wk'[i].ipIdx = wk[i].ipIdx + 1]_vars

C3_Witness ==
    \E i \in Workers :
        /\ retry > 1
        /\ wk[i].pc = "aw_after"
        /\ wk[i].cause = "enverr" /\ wk[i].etext = Rcode9Text /\ wk[i].envelope = 0
        /\ wk[i].nAxfr = 1

\* C4: with saveAll unset, once an attempt for the zone has returned
\* records > 0, no attempt is made against another candidate IP of the zone.
C4_StopsAfterRecords ==
    \A i \in Workers : (~saveAll /\ wk[i].hRecKey # << >>) => ~wk[i].hLateRec

\* C5: when axfrToFile has returned after the stream ended, after an envelope
\* error or after a cancellation, no temp file is on disk; if the attempt wrote
\* no record the disk is what it was before the attempt, and if it wrote
\* records the only change is the final file, which holds those records.
C5_NoTempFileLeft ==
    \A i \in Workers :
        LET w == wk[i]
            name == Filename(w.zone, w.ns, w.ip)
            RRLines(lines) == { k \in 1 .. Len(lines) : lines[k].k = "rr" }
        IN  (w.pc = "ax_ret" /\ w.cause \in {"end", "enverr", "cancel"}) =>
              /\ \A n \in DOMAIN disk : ~n.tmp
              /\ w.f = NoFile
              /\ IF w.records = 0
                 THEN disk = w.disk0
                 ELSE /\ DOMAIN disk = DOMAIN w.disk0 \cup {name}
                      /\ \A n \in DOMAIN w.disk0 \ {name} : disk[n] = w.disk0[n]
                      /\ Cardinality(RRLines(disk[name])) = w.records
                      /\ \E k \in 1 .. Len(disk[name]) :
                            disk[name][k] = Line("nameserverIP", IPString(w.ip))

C5_Witness ==
    \E i \in Workers :
        /\ wk[i].pc = "ax_ret" /\ wk[i].cause = "cancel" /\ wk[i].records > 0
        /\ Filename(wk[i].zone, wk[i].ns, wk[i].ip) \in DOMAIN disk
        /\ wk[i].disk0 = EmptyDisk

\* C6: in a dry run the writer never opens its temp file and never counts a
\* record; a transfer that ends at an envelope with RRs returns that number of
\* records with a nil error and the disk untouched, and axfr then adds one to
\* totalXFR.
C6_DryRunWritesNothing ==
    /\ [](\A i \in Workers :
            LET w == wk[i] IN
            dryRun =>
              /\ ~w.f.opened /\ w.f.records = 0
              /\ \A n \in DOMAIN disk : ~n.tmp
              /\ (w.pc = "ax_ret" /\ w.cause = "dryrun")
                    => w.records > 0 /\ w.rErr = NoErr /\ disk = w.disk0)
    /\ [][\A i \in Workers :
            (wk[i].pc = "ax_ret" /\ wk[i].cause = "dryrun" /\ wk'[i] # wk[i])
               => totalXFR' = Inc32(totalXFR) /\ disk' = disk]_vars

C6_Witness ==
    \E i \in Workers :
        /\ dryRun
        /\ wk[i].pc = "ar_after" /\ wk[i].cause = "dryrun" /\ wk[i].envelope = 0
        /\ totalXFR = 1 /\ disk = EmptyDisk

\* C7: one call of axfrRetry calls axfr at most retry times, and after an
\* envelope error other than rcode 5/9 it leaves its loop only when the number
\* of calls has reached retry.
C7_RetryBound ==
    \A i \in Workers :
        LET w == wk[i] IN
        /\ w.nAxfr <= retry
        /\ (w.cause = "enverr" /\ w.etext = OtherErrText /\ w.pc \in {"ar_exit", "aw_after"})
              => w.nAxfr = retry /\ w.nSleep = retry

C7_Witness ==
    \E i \in Workers :
        /\ retry > 1
        /\ wk[i].pc = "ar_exit" /\ wk[i].cause = "enverr" /\ wk[i].etext = OtherErrText
        /\ wk[i].nAxfr = retry

\* C8: every Store of StartTransfer is consumed by at most one load-and-delete
\* (of CompleteTransfer, FailTransfer or the cleanup), so a zone started once
\* is counted at most once; completed + failed is exactly the number of
\* load-and-deletes that found their zone, less those whose caller has not
\* reached its increment yet, and so never exceeds the number of StartTransfer
\* calls.
C8_FirstTransitionWins ==
    LET RECURSIVE Sum(_, _)
        Sum(f, S) == IF S = {} THEN 0
                     ELSE LET z == CHOOSE x \in S : TRUE IN f[z] + Sum(f, S \ {z})
        pending == Cardinality({ i \in Workers :
                                   wk[i].pc \in {"ct_dec", "ct_inc", "ft_dec", "ft_inc"} })
                   + (IF cl.pc \in {"dec", "inc"} THEN 1 ELSE 0)
    IN  /\ \A z \in ZoneNames : hist.won[z] <= hist.started[z]
        /\ ss.completed + ss.failed = Sum(hist.won, ZoneNames) - pending
        /\ ss.completed + ss.failed <= Sum(hist.started, ZoneNames)

C8_Witness ==
    \E z \in ZoneNames :
        /\ hist.started[z] = 1 /\ hist.won[z] = 1
        /\ hist.calls = MaxCalls
        /\ \A i \in Workers : wk[i].pc = "api"
        /\ ss.completed + ss.failed = 1
        /\ z \notin DOMAIN ss.active

\* C9: when no call of the status API is in progress (and the cleanup is not
\* in the middle of removing an entry), activeCount is the number of entries
\* of the active map.
C9_ActiveCountIsMapSize ==
    ((\A i \in Workers : wk[i].pc = "api") /\ cl.pc \in {"wait", "range"})
       => ss.activeCount = Cardinality(DOMAIN ss.active)

\* C10: a worker has returned only if the zone-name channel is closed, and
\* then with nil; when axfrWorker returns an error the worker's next step is
\* the failure report (if there is a status server) on its way back to the
\* receive, or the receive itself.
C10_WorkerSurvivesFailure ==
    /\ [](\A i \in Workers : wk[i].pc = "returned" => closed /\ wk[i].result = NoErr)
    /\ [][\A i \in Workers :
            (wk[i].pc = "wk_ret" /\ wk[i].ret # NoErr /\ wk'[i] # wk[i]) =>
               IF statusOn
               THEN /\ wk'[i].pc = "ft_lad" /\ wk'[i].sret = "recv"
                    /\ wk'[i].sarg = wk[i].domain
                    /\ wk'[i].sreason = ErrorString(wk[i].ret)
               ELSE wk'[i].pc = "recv"]_vars

C10_Witness ==
    \E i \in Workers :
        /\ wk[i].pc = "recv"
        /\ todo # {}
        /\ \E k \in 1 .. Len(ss.recentFailed) : ss.recentFailed[k][2] = ErrorString(CtxErr)

\* C11: whatever the NS map holds, no name GetNameChan has sent is ".", is
\* "arpa." or ends in ".arpa.".
C11_NoRootNoArpa ==
    \A d \in zn.sent :
        /\ d # <<".">>
        /\ d # <<"arpa", ".">>
        /\ ~(\E k \in 1 .. Len(d) : SubSeq(d, k, Len(d)) = <<".", "arpa", ".">>)

C11_Witness ==
    /\ closed
    /\ {<<".">>, <<"arpa", ".">>, <<"a", ".", "arpa", ".">>, <<"a", ".">>} \subseteq zn.NS
    /\ <<"a", ".">> \in zn.sent

\* C12: when the first closing call on a writer is Finish and N >= 1 RRs were
\* added before it, the temp file is gone and the final file holds the two
\* metadata lines of fileReady, then the comments and the N records in the
\* order of the calls that wrote them (and, for N > 1, the records comment).
C12_RecordsInOrder ==
    LET closers == { k \in 1 .. Len(fw.calls) : fw.calls[k] \in {"Finish", "Abort"} }
        first == CHOOSE k \in closers : \A j \in closers : k <= j
        before == { k \in 1 .. (first - 1) : TRUE }
        n == Cardinality({ k \in before : fw.calls[k] = "AddRR" })
        LineOf(k) == IF fw.calls[k] = "AddRR" THEN Line("rr", <<k>>)
                     ELSE Line("comment", <<k>>)
        body == [k \in 1 .. (first - 1) |-> LineOf(k)]
        expected == << Line("timestamp", <<"now">>), Line("zone", fw.f.zone) >> \o body
                       \o (IF n > 1 THEN << Line("records", <<"n", n>>) >> ELSE << >>)
    IN  (closers # {} /\ fw.calls[first] = "Finish" /\ n >= 1) =>
           /\ DOMAIN disk = { fw.f.filename }
           /\ disk[fw.f.filename] = expected
           /\ (\A k \in 1 .. Len(fw.calls) : fw.calls[k] # "Abort") => fw.f.records = n

C12_Witness ==
    /\ fw.calls = <<"WriteComment", "AddRR", "WriteComment", "AddRR", "Finish">>
    /\ fw.f.filename \in DOMAIN disk
    /\ Len(disk[fw.f.filename]) = 7

\* C13: when Finish has closed an opened writer with N >= 1 records, the last
\* line of the final file is the records comment with N.
C13_RecordsComment ==
    (/\ fw.calls # << >>
     /\ fw.calls[Len(fw.calls)] = "Finish"
     /\ fw.f.closed /\ fw.f.opened /\ fw.f.records >= 1
     /\ fw.f.filename \in DOMAIN disk)
       => LET lines == disk[fw.f.filename] IN
          lines[Len(lines)] = Line("records", <<"n", fw.f.records>>)

\* C14: every zone file the program has saved has its lines in the order
\* Generated by ALLXFR, timestamp, zone, nameserver, nameserverIP, xfr, the
\* record lines, the records comment (if the file has one), envelopes.
C14_FileLayout ==
    \A name \in DOMAIN disk :
        LET lines == disk[name]
            keys == [k \in 1 .. Len(lines) |-> lines[k].k]
            n == Len(keys)
        IN  (~name.tmp /\ lines # << Line("old", << >>) >>) =>
              /\ n >= 8
              /\ SubSeq(keys, 1, 6) = << "Generated by ALLXFR", "timestamp", "zone",
                                         "nameserver", "nameserverIP", "xfr" >>
              /\ keys[n] = "envelopes"
              /\ \E m \in {n - 2, n - 1} :
                    /\ \A k \in 7 .. m : keys[k] = "rr"
                    /\ m = n - 2 => keys[n - 1] = "records"

\* C16: once the writer is closed, a call of WriteComment (WriteCommentKey) or
\* AddRR returns ErrFileClosed and changes neither the writer (its record
\* count included) nor the disk.
C16_ClosedRejectsWrites ==
    [][(fw.f.closed /\ fw'.calls # fw.calls
          /\ fw'.calls[Len(fw'.calls)] \in {"WriteComment", "AddRR"})
         => (fw'.err = ErrFileClosed /\ fw'.f = fw.f /\ disk' = disk)]_vars

C16_Witness ==
    /\ fw.calls = <<"AddRR", "AddRR", "Finish", "WriteComment", "AddRR">>
    /\ fw.err = ErrFileClosed
    /\ fw.f.records = 2
    /\ DOMAIN disk = { fw.f.filename }

\* C17: when the call that has just returned is Abort, neither the temp file
\* nor the final file of this writer is on disk.
C17_AbortLeavesNoFile ==
    (fw.calls # << >> /\ fw.calls[Len(fw.calls)] = "Abort")
       => (fw.f.filename \notin DOMAIN disk /\ fw.f.filenameTmp \notin DOMAIN disk)

\* call i of a cache history touched key k: a put of k, or a get of k that hit
CacheTouch(calls, i, k) ==
    /\ calls[i].key = k
    /\ \/ calls[i].op \in {"put", "putNegative"}
       \/ calls[i].op = "get" /\ calls[i].found

\* the number of the last of the first n calls that touched k, 0 when none did
LastTouch(calls, n, k) ==
    LET S == {i \in 1 .. n : CacheTouch(calls, i, k)}
    IN  IF S = {} THEN 0 ELSE CHOOSE i \in S : \A j \in S : j <= i

\* C18: a cache of capacity C never holds more than C keys; while no entry
\* has expired it holds exactly C keys once more than C distinct keys were
\* inserted; and the key an insert evicts is the least recently touched one,
\* every key left in the cache having been touched (by a put or by a get
\* that hit) after the evicted key's last touch.
C18_LRUEviction ==
    LET calls == cache.calls
        n     == Len(calls)
        c     == cache.c
        inserted == {calls[i].key : i \in {j \in 1 .. n :
                                            calls[j].op \in {"put", "putNegative"}}}
        noExpiry == \A i \in 1 .. n :
                       calls[i].op = "get" /\ ~calls[i].found
                         => LastTouch(calls, i - 1, calls[i].key) = 0
                            \/ \E j \in 1 .. i - 1 : calls[j].evicted = calls[i].key
                                                    /\ j > LastTouch(calls, i - 1, calls[i].key)
    IN  /\ Cardinality(c.cache) <= c.capacity
        /\ Len(LRUList(c)) <= c.capacity
        /\ noExpiry /\ Cardinality(inserted) > c.capacity
             => Cardinality(c.cache) = c.capacity
        /\ n > 0 /\ calls[n].evicted # NilNode
             => LET e == calls[n].evicted
                IN  /\ e \notin c.cache
                    /\ LastTouch(calls, n - 1, e) > 0
                    /\ \A k \in CacheKeys \ {e} :
                         LastTouch(calls, n, k) > LastTouch(calls, n - 1, e)
                           => k \in c.cache
                    /\ \A k \in c.cache :
                         LastTouch(calls, n, k) > LastTouch(calls, n - 1, e)

\* the second key put is evicted, the first having been touched by a get since
C18_Witness ==
    /\ cache.c.capacity = 2
    /\ Len(cache.calls) = 4
    /\ cache.calls[1].op = "put" /\ cache.calls[2].op = "put"
    /\ cache.calls[3].op = "get" /\ cache.calls[3].found
    /\ cache.calls[3].key = cache.calls[1].key
    /\ cache.calls[4].op = "put"
    /\ cache.calls[4].evicted = cache.calls[2].key
    /\ cache.calls[1].key \in cache.c.cache
    /\ Cardinality(cache.c.cache) = 2

\* C19: a get of k no later than the TTL after the last put of k, k not having
\* been evicted in between, is a hit that returns the value put; a get of k
\* later than the TTL after the last put of k is a miss, after which k is
\* neither in the map nor in the LRU list.
C19_TTLExpiry ==
    LET calls == cache.calls
        n     == Len(calls)
        c     == cache.c
    IN  n > 0 /\ calls[n].op = "get"
          => LET k == calls[n].key
                 P == {i \in 1 .. n - 1 : calls[i].key = k
                                          /\ calls[i].op \in {"put", "putNegative"}}
             IN  P # {}
                   => LET p == CHOOSE i \in P : \A j \in P : j <= i
                          gone == \E j \in p + 1 .. n - 1 :
                                     \/ calls[j].evicted = k
                                     \/ calls[j].op = "get" /\ calls[j].key = k
                                        /\ ~calls[j].found
                      IN  IF calls[n].at - calls[p].at <= calls[p].ttl
                          THEN ~gone => /\ calls[n].found
                                        /\ calls[n].result = calls[p].result
                                        /\ k \in c.cache
                                        /\ Head(LRUList(c)) = k
                          ELSE /\ ~calls[n].found
                               /\ k \notin c.cache
                               /\ \A i \in 1 .. Len(LRUList(c)) : LRUList(c)[i] # k
                               /\ \A i \in 1 .. Len(LRUListRev(c)) : LRUListRev(c)[i] # k

\* a put with the short TTL, a hit when exactly the TTL has passed, and a miss
\* one tick later that removes the entry
C19_Witness ==
    LET calls == cache.calls
    IN  /\ Len(calls) = 5
        /\ calls[1].op = "put" /\ calls[1].ttl = ShortTTL
        /\ calls[2].op = "tick"
        /\ calls[3].op = "get" /\ calls[3].key = calls[1].key /\ calls[3].found
        /\ calls[3].result = calls[1].result
        /\ calls[4].op = "tick"
        /\ calls[5].op = "get" /\ calls[5].key = calls[1].key /\ ~calls[5].found
        /\ calls[5].at - calls[1].at > calls[1].ttl
        /\ cache.c.cache = {}
        /\ LRUList(cache.c) = << >>

SetMin(S) == CHOOSE m \in S : \A x \in S : m <= x

RRSet(rrs) == {rrs[i] : i \in 1 .. Len(rrs)}

\* C20: for a result that is not nil, calculateTTL is 300 s when Answer and
\* Authority are both empty, and otherwise the least of 3600 s, the TTLs of the
\* Answer and Authority records and, when the result is a name error, the
\* MINIMUM of the SOA records of Authority, raised to 60 s when it is less.
C20_CalculateTTL ==
    msg.done /\ msg.in # NilResult
      => LET r   == msg.in
             all == RRSet(r.Answer) \cup RRSet(r.Authority)
             S   == {ttlCeiling}
                    \cup {rr.Ttl : rr \in all}
                    \cup IF r.Rcode = RcodeNameError
                         THEN {rr.Minttl : rr \in {x \in RRSet(r.Authority) : x.soa}}
                         ELSE {}
             m   == SetMin(S)
         IN  msg.ttl = IF all = {} THEN ttlDefault
                       ELSE IF m < ttlFloor THEN ttlFloor ELSE m

\* a name error whose SOA MINIMUM is below every TTL and below the floor
C20_Witness ==
    /\ msg.done /\ msg.in # NilResult
    /\ msg.in.Rcode = RcodeNameError
    /\ Len(msg.in.Answer) = 0
    /\ Len(msg.in.Authority) = 1
    /\ msg.in.Authority[1].soa
    /\ msg.in.Authority[1].Minttl < ttlFloor
    /\ msg.in.Authority[1].Ttl > ttlFloor
    /\ msg.ttl = ttlFloor

\* C24: once the context is cancelled, an axfrWorker that has tried a candidate
\* IP of its zone calls axfrRetry for no further candidate IP: its
\* attemptedIPs does not grow.
C24_CancelAbortsZone ==
    [][\A i \in Workers :
         cancelled /\ wk[i].attempted # {}
           => wk'[i].attempted \subseteq wk[i].attempted]_vars

\* C25: with a status server, when axfrWorker returns nil for a zone that was
\* handed over by its FQDN and no attempt for the zone produced records, the
\* zone is among the recent failures with the reason "no successful zone
\* transfers".
C25_NoSuccessMarkedFailed ==
    \A i \in Workers :
      /\ statusOn /\ wk[i].pc = "wk_ret" /\ wk[i].ret = NoErr
      /\ wk[i].hRecKey = << >> /\ wk[i].domain = wk[i].zone
      => \E k \in 1 .. Len(ss.recentFailed) :
           ss.recentFailed[k] = <<wk[i].zone, "no successful zone transfers">>

\* the glue candidates of a zone, in their 16-byte form
GlueIPs(zone) ==
    UNION { { To16(ZoneIPOf(ZoneNSOf(zone)[n])[k]) :
                k \in 1 .. Len(ZoneIPOf(ZoneNSOf(zone)[n])) } :
            n \in 1 .. Len(ZoneNSOf(zone)) }

\* C26: within one axfrWorker call no two calls of axfrRetry are for the same
\* address in its 16-byte form, no glue candidate is tried after a candidate
\* the resolver supplied, and when a resolver-supplied candidate is tried every
\* glue candidate of the zone has been tried.
C26_OncePerIPGlueFirst ==
    \A i \in Workers :
      LET c == wk[i].hCalled IN
        /\ \A j, k \in 1 .. Len(c) : j # k => c[j].ip # c[k].ip
        /\ \A j, k \in 1 .. Len(c) : j < k /\ c[k].phase = "glue" => c[j].phase = "glue"
        /\ (\E k \in 1 .. Len(c) : c[k].phase = "query")
             => GlueIPs(wk[i].zone)
                  \subseteq { c[k].ip : k \in { j \in 1 .. Len(c) : c[j].phase = "glue" } }

\* both glue addresses were tried, the address ns2 repeats in its mapped form
\* and the address the resolver repeats were skipped, and the resolver's new
\* address is being tried
C26_Witness ==
    \E i \in Workers :
      /\ wk[i].zone = <<"a", Dot>>
      /\ Len(wk[i].hCalled) = 3
      /\ wk[i].hCalled[1] = [ip |-> IP4in6(1), phase |-> "glue"]
      /\ wk[i].hCalled[2] = [ip |-> IP6(2), phase |-> "glue"]
      /\ wk[i].hCalled[3] = [ip |-> IP4in6(4), phase |-> "query"]
      /\ wk[i].pc = "af_dial"

C28_EveryZoneHandedOnce ==
    /\ [](\A d \in DOMAIN NSMap :
            Len(hist.handed[d]) <= IF SkippedName(d) THEN 0 ELSE 1)
    /\ <>[](/\ closed
            /\ \A i \in Workers : i <= flag.parallel => wk[i].pc = "returned"
            /\ \A d \in DOMAIN NSMap :
                 Len(hist.handed[d]) = IF SkippedName(d) THEN 0 ELSE 1)

\* two workers have returned, each after the one zone it was handed
C28_Witness ==
    /\ flag.parallel = 2
    /\ closed
    /\ \A i \in Workers : wk[i].pc = "returned"
    /\ \E d, e \in DOMAIN NSMap :
         /\ d # e
         /\ hist.handed[d] = <<1>> /\ hist.handed[e] = <<2>>
    /\ hist.handed[<<Dot>>] = << >>

C30_KeysLowerFqdn ==
    \A d \in zn.NS : d = ToLower(d) /\ Len(d) > 0 /\ d[Len(d)] = Dot

\* the lower-case half of C30 alone
C30_KeysLower == \A d \in zn.NS : d = ToLower(d)

\* C21: two calls of Resolve/ResolveAll build the same cache key only if they
\* are the same function asked for the same domain (as an FQDN) and the same
\* query type: keys are unique per (domain, qtype), and no key of ResolveAll
\* equals a key of Resolve.
C21_KeysUnique ==
    \A i, j \in 1 .. Len(rs.calls) :
      rs.calls[i].key = rs.calls[j].key
        => /\ rs.calls[i].fn = rs.calls[j].fn
           /\ Fqdn(rs.calls[i].domain) = Fqdn(rs.calls[j].domain)
           /\ rs.calls[i].qtype = rs.calls[j].qtype

\* Resolve("a_ALL", A) and ResolveAll("a", A) were both called; their keys
\* "a_ALL.:1" and "a._ALL:1" differ
C21_Witness ==
    /\ Len(rs.calls) = 2
    /\ rs.calls[1] = [fn |-> "Resolve", domain |-> <<"a">> \o AllSuffix, qtype |-> TypeA,
                      key |-> <<"a", "_", "A", "L", "L", Dot, ":", "1">>]
    /\ rs.calls[2] = [fn |-> "ResolveAll", domain |-> <<"a">>, qtype |-> TypeA,
                      key |-> <<"a", Dot, "_", "A", "L", "L", ":", "1">>]

\* C23: for the same question and the same answers of the servers, the result
\* of ResolveAll holds at least as many Answer records as the result of
\* Resolve (a call that fails returns no record).
C23_AllAtLeastResolve ==
    \A i, j \in 1 .. Len(rs.out) :
      /\ rs.out[i].fn = "Resolve"
      /\ rs.out[j].fn = "ResolveAll"
      /\ rs.out[i].qtype = rs.out[j].qtype
      => rs.out[j].n >= rs.out[i].n

C35_NxdomainReturnsAtOnce ==
    [][\A f \in 1 .. 2 :
         LET fr == rs.fr[f]
             s  == Head(fr.ns)
         IN  fr.pc = "level" /\ rs'.fr[f] # fr
             => /\ ~ExchangeFails(s) /\ rs.net[s] = "nxdomain"
                  => /\ rs'.fr[f].pc = "done"
                     /\ rs'.fr[f].err = NoErr
                     /\ rs'.fr[f].result.Rcode = RcodeNameError
                     /\ rs'.fr[f].ns = Tail(fr.ns)
                /\ ExchangeFails(s) \/ rs.net[s] = "servfail"
                  => IF Tail(fr.ns) = << >>
                     THEN rs'.fr[f].pc = "done"
                          /\ rs'.fr[f].err = <<"no answer found">>
                     ELSE rs'.fr[f].pc = "level"
                          /\ rs'.fr[f].ns = Tail(fr.ns)
                          /\ rs'.fr[f].depth = fr.depth]_vars

\* Resolve has returned the NXDOMAIN of the first root server it asked, with a
\* nil error, and the other root server of the level was never asked
C35_Witness ==
    \E f \in 1 .. 2 :
      /\ rs.fr[f].pc = "done" /\ rs.fr[f].fn = "Resolve"
      /\ rs.fr[f].err = NoErr /\ ~rs.fr[f].hit
      /\ rs.fr[f].result # NilResult
      /\ rs.fr[f].result.Rcode = RcodeNameError
      /\ rs.fr[f].depth = 0
      /\ Len(rs.fr[f].ns) = 1

\* the sections of a result
Sections == {"Answer", "Authority", "Additional"}

\* the texts of the records of a section
Texts(rrs) == { rrString(rrs[k]) : k \in DOMAIN rrs }

\* C33: each section of the result of mergeResults holds, exactly once each,
\* the records (by text) that occur in that section of some input.
C33_SectionsAreUnions ==
    rs.done /\ rs.results # << >>
      => \A sec \in Sections :
           LET out == rs.merged[sec]
           IN  /\ Texts(out) = UNION { Texts(rs.results[i][sec]) : i \in DOMAIN rs.results }
               /\ \A j, k \in DOMAIN out : rrString(out[j]) = rrString(out[k]) => j = k

\* C34: no server is queried at a recursion depth above 30, and a call in
\* which following a referral or a CNAME target would have gone beyond that
\* depth fails with the error "maximum recursion depth exceeded"
C34_DepthBounded ==
    \A f \in 1 .. 2 :
      /\ rs.fr[f].pc \in {"level", "wait"} => rs.fr[f].depth <= maxRecursionDepth
      /\ rs.fr[f].pc = "done" /\ rs.fr[f].over =>
           rs.fr[f].err = <<"maximum recursion depth exceeded">>

Count(seq, x) == Cardinality({ k \in DOMAIN seq : seq[k] = x })

\* the order of the ranking: server x has to come before server y
C31_Before(x, y) ==
    LET a  == rs.stats[x]
        b  == rs.stats[y]
        oa == circuitOpen(a, rs.now)
        ob == circuitOpen(b, rs.now)
    IN  IF oa # ob THEN ~oa
        ELSE IF a.failures # b.failures THEN a.failures < b.failures
        ELSE IF a.exists # b.exists THEN a.exists
        ELSE a.exists /\ a.avgRTT < b.avgRTT

C32_Open(st, t) == st.failures >= 5 /\ t - st.lastFailed < 60

\* C32: a ranking treats a server as open-circuit exactly when it has failed
\* at least 5 times in a row and its last failure is less than 60 s old; a
\* failed query adds one to the server's count, and an answered query sets it
\* to 0, after which the circuit is closed
C32_CircuitBreaker ==
    [][/\ rs'.ops = rs.ops + 1 =>
            LET ns == rs'.query.ns
            IN  /\ rs'.query.success =>
                     /\ rs'.stats[ns].failures = 0
                     /\ ~circuitOpen(rs'.stats[ns], rs'.now)
                /\ ~rs'.query.success =>
                     rs'.stats[ns].failures = rs.stats[ns].failures + 1
                /\ \A s \in RankServers \ {ns} : rs'.stats[s] = rs.stats[s]
       /\ rs'.ranking.done /\ ~rs.ranking.done =>
            \A k \in DOMAIN rs'.ranking.nsStats :
               rs'.ranking.nsStats[k].circuitOpen
                 <=> C32_Open(rs.stats[rs'.ranking.nsStats[k].ns], rs.now)
      ]_vars

\* the fifth failure in a row of a server was recorded, and the ranking made
\* after it treats the server as open-circuit
C32_Witness ==
    /\ rs.ranking.done
    /\ \E k \in DOMAIN rs.ranking.nsStats :
         /\ rs.ranking.nsStats[k].circuitOpen
         /\ rs.ranking.nsStats[k].failures = maxFailures
         /\ rs.query = [ns |-> rs.ranking.nsStats[k].ns, success |-> FALSE]

\* C36: with a status server, when a worker is done with a zone and turns to
\* the next name, the zone is not in the active map any more, under the name
\* the worker was given or under its FQDN
C36_FinishedZoneNotActive ==
    [][\A i \in Workers :
         statusOn /\ wk[i].pc # "recv" /\ wk'[i].pc = "recv"
         => LET d == IF wk[i].pc = "wk_ret" THEN wk[i].domain ELSE wk[i].sarg
            IN  /\ d \notin DOMAIN ss'.active
                /\ Fqdn(d) \notin DOMAIN ss'.active]_vars

\* C37: without -overwrite, when an attempt has failed with an envelope error
\* after records were received and axfrRetry tries the address again, the
\* file of the zone is not in the output directory (the failed attempt left
\* none behind), so that the new attempt transfers the zone afresh
C37_RetryIsFresh ==
    [][\A i \in Workers :
         /\ ~overwrite
         /\ wk[i].pc = "ar_sleep" /\ wk[i].cause = "enverr" /\ wk[i].records > 0
         /\ wk'[i].pc = "af_dial"
         => ~SkipsExisting(wk'[i], disk')]_vars

\* C38: with a status server and its cleanup running, when every worker has
\* returned, every transfer that was counted in totalXFR is counted in
\* completed: the two counters are equal
C38_CompletedEqualsTotalXFR ==
    (statusOn /\ \A i \in Workers : i <= flag.parallel => wk[i].pc = "returned")
      => ss.completed = totalXFR

\* C39: the root servers are tried in order until a transfer ends without
\* error; the zone set that goes to the workers is the one of that transfer,
\* and when every transfer has failed the run ends with the fatal error for
\* an empty zone set
C39_RootZoneFromGoodTransfer ==
    LET n == Len(zn.tried) IN
    /\ \A k \in 1 .. n :
         /\ zn.tried[k].ns = RootServerNames[k]
         /\ k < n => zn.tried[k].err # NoErr
    /\ zn.pc = "workers" => zn.tried[n].err = NoErr /\ zn.NS = zn.tried[n].root
    /\ (zn.pc \in {"workers", "fatal"} /\ \A k \in 1 .. n : zn.tried[k].err # NoErr)
         => zn.pc = "fatal"

====
